---- MODULE Spec2Model ----
(***************************************************************************)
(* WIL enrollment data: the cleaning pipeline (app/services/cleaning.py),  *)
(* the multi-file merge (app/api/visualization.py) and the comparison      *)
(* table builder (app/services/visualization.py).                          *)
(*                                                                         *)
(* A table (pandas DataFrame) is a record [columns, rows]: the set of its  *)
(* column names and the sequence of its rows, each row a record over the   *)
(* columns.  A Python dict is a function over its keys; the empty dict {}  *)
(* is the function with the empty domain.  Text that the code inspects     *)
(* character by character (course codes, raw cells) is a sequence of       *)
(* one-character strings.                                                  *)
(***************************************************************************)
EXTENDS Integers, Sequences, FiniteSets, TLC

VARIABLES
    \* WILReportAnalyzer (app/services/visualization.py)
    data,            \* WILReportAnalyzer.data: the loaded table
    calls,           \* number of table-generation calls made on the loaded table
    lastCall,        \* name of the analyzer method called last ("none" before any)
    lastResult,      \* what that call returned
    \* DataCleaner (app/services/cleaning.py)
    df,              \* the table the pipeline is working on
    pc,              \* the DataCleaner method that ran last ("__init__" before any)
    fill_missing,    \* clean_data's fill_missing argument
    cleaning_log,    \* DataCleaner.cleaning_log
    quality_report,  \* DataCleaner.quality_report
    original_shape,  \* DataCleaner.original_shape
    cleaned_shape,   \* DataCleaner.cleaned_shape
    report,          \* the figures of the quality report save_cleaned_data wrote
    file_path,       \* the file read_data was called on (None before the call)
    encodings_tried, \* the encodings pd.read_csv was called with, in order
    \* clean_multiple_wil_data (app/services/cleaning.py)
    input_files,     \* the input_files argument
    results,         \* the results list
    batch_options,   \* the fill_missing and batch_id of the call
    batch_pc,        \* where the call is: "idle", "loop", "returned" or "raised"
    cleaner,         \* the DataCleaner the name cleaner is bound to (None before the loop)
    output_dir,      \* the files written into output_dir, by name
    \* analyze_multi_file (app/api/visualization.py)
    merge_pc,        \* where the request is: "idle", "loop", "merged" or "responded"
    file_ids,        \* the files of the request's file_ids
    all_dataframes,  \* the cleaned tables collected so far
    merged_df,       \* the merged table
    response,        \* the error response of the request (None without one)
    \* determine_academic_level (app/services/visualization.py)
    code_cell,       \* the COURSE_CODE cell classified (NaN for a missing one)
    level_cell,      \* the ACADEMIC_LEVEL returned for it ("" before the call)
    \* validate_filename (app/services/validation.py)
    filename,        \* the filename argument
    filename_check,  \* the (is_valid, error) pair returned (None before the call)
    \* WILReportAnalyzer construction (app/services/visualization.py)
    data_file,       \* the file data_path names (None before the construction)
    analyzer,        \* the analyzer constructed (None without one)
    analyzer_raised, \* the exception the last call raised (None without one)
    analyzer_pc      \* the call made last: "start", "__init__" or "load_data"

tableVars == <<data, calls, lastCall, lastResult>>
cleanerVars == <<df, pc, fill_missing, cleaning_log, quality_report,
                 original_shape, cleaned_shape, report, file_path, encodings_tried>>
batchVars == <<input_files, batch_options, results, batch_pc, cleaner, output_dir>>
mergeVars == <<merge_pc, file_ids, all_dataframes, merged_df, response>>
levelVars == <<code_cell, level_cell>>
filenameVars == <<filename, filename_check>>
analyzerVars == <<data_file, analyzer, analyzer_raised, analyzer_pc>>
vars == <<tableVars, cleanerVars, batchVars, mergeVars, levelVars, filenameVars,
          analyzerVars>>

----------------------------------------------------------------------------
(* Bounds of the analyzer's input table *)

MaxRows == 3

\* table-generation calls explored per loaded table (every call is a function
\* of the table alone)
MaxCalls == 1

StudentIds == {1, 2}
Years == {2023, 2024, 2025}
Terms == {1}

\* The faculty names of the model, in Python's ascending string order.
FacultyNames == <<"Faculty of Engineering", "Faculty of Science">>

\* COMP9417 and COMP3121
CourseCodes == { <<"C","O","M","P","9","4","1","7">>,
                 <<"C","O","M","P","3","1","2","1">> }

\* tables of at most MaxRepeatRows rows are explored with up to
\* MaxRepeatCalls generation calls in a row instead of MaxCalls
MaxRepeatRows == 2

MaxRepeatCalls == 3

Timestamps == {"t1", "t2"}

----------------------------------------------------------------------------
(* Python / pandas helpers *)

EmptyDict == <<>>

\* Python's None
None == [none |-> TRUE]

\* bool(d) of a dict
Truthy(d) == DOMAIN d # {}

RECURSIVE SortInts(_)
\* sorted(S) for a collection of distinct integers
SortInts(S) ==
    IF S = {} THEN <<>>
    ELSE LET m == CHOOSE x \in S : \A y \in S : x <= y
         IN  <<m>> \o SortInts(S \ {m})

\* position of a faculty name in Python's string order
StrRank(s) == CHOOSE i \in DOMAIN FacultyNames : FacultyNames[i] = s

RECURSIVE SortStrsDesc(_)
SortStrsDesc(S) ==
    IF S = {} THEN <<>>
    ELSE LET m == CHOOSE x \in S : \A y \in S : StrRank(x) >= StrRank(y)
         IN  <<m>> \o SortStrsDesc(S \ {m})

RECURSIVE SortStrs(_)
\* sorted(S) for a collection of distinct strings
SortStrs(S) ==
    IF S = {} THEN <<>>
    ELSE LET m == CHOOSE x \in S : \A y \in S : StrRank(x) <= StrRank(y)
         IN  <<m>> \o SortStrs(S \ {m})

\* Series.get(key, default)
SeriesGet(s, k, default) == IF k \in DOMAIN s THEN s[k] ELSE default

RECURSIVE SumField(_, _)
\* running total of one column of a list of dict rows
SumField(rs, k) ==
    IF rs = <<>> THEN 0 ELSE SumField(SubSeq(rs, 1, Len(rs) - 1), k) + rs[Len(rs)][k]

RECURSIVE InsertInt(_, _)
InsertInt(xs, x) ==
    IF xs = <<>> THEN <<x>>
    ELSE IF x <= Head(xs) THEN <<x>> \o xs
    ELSE <<Head(xs)>> \o InsertInt(Tail(xs), x)

RECURSIVE SortIntSeq(_)
\* sorted(xs) for a list of integers, repetitions kept
SortIntSeq(xs) ==
    IF xs = <<>> THEN <<>>
    ELSE InsertInt(SortIntSeq(SubSeq(xs, 1, Len(xs) - 1)), xs[Len(xs)])

RECURSIVE SumSeq(_)
\* sum(values)
SumSeq(xs) == IF xs = <<>> THEN 0 ELSE SumSeq(SubSeq(xs, 1, Len(xs) - 1)) + xs[Len(xs)]

AvailableYearsNotUnique(d) ==
    SortIntSeq([i \in DOMAIN d.rows |-> d.rows[i].ACADEMIC_YEAR])

\* sorted(self.data['ACADEMIC_YEAR'].unique())
AvailableYears(d) == SortInts({d.rows[i].ACADEMIC_YEAR : i \in DOMAIN d.rows})

\* f"{(diff / base) * 100:.1f}%": the quotient rounded to the nearest tenth
\* (ties to even), Python's sign kept also when the rounded value is 0.0.
\* The division is the integer division by base: base = 0 is an error.
FormatPct(diff, base) ==
    LET mag    == IF diff < 0 THEN -diff ELSE diff
        q      == (1000 * mag) \div base
        rem    == (1000 * mag) % base
        tenths == IF 2 * rem > base THEN q + 1
                  ELSE IF 2 * rem < base THEN q
                  ELSE IF q % 2 = 0 THEN q ELSE q + 1
    IN  (IF diff < 0 THEN "-" ELSE "") \o ToString(tenths \div 10) \o "."
            \o ToString(tenths % 10) \o "%"

PctChangeStrSwapped(count_1, count_2) ==
    IF count_1 > 0 THEN FormatPct(count_2 - count_1, count_1)
    ELSE IF count_2 > 0 THEN "N/A"
    ELSE "New"

\* the three-branch percentage change of a row
PctChangeStr(count_1, count_2) ==
    IF count_1 > 0 THEN FormatPct(count_2 - count_1, count_1)
    ELSE IF count_2 > 0 THEN "New"
    ELSE "N/A"

\* the percentage change of a Grand Total row
TotalPctChangeStr(total_1, total_2) ==
    IF total_1 > 0 THEN FormatPct(total_2 - total_1, total_1)
    ELSE IF total_2 > 0 THEN "New" ELSE "N/A"

----------------------------------------------------------------------------
(* Table 1: enrollment comparison *)

\* the enrollment counts of every faculty of the table, whatever the year
EnrollmentByFacultyAllYears(d, year) ==
    LET facs == {d.rows[i].FACULTY_DESCR : i \in DOMAIN d.rows}
    IN  [f \in facs |->
            Cardinality({d.rows[i].MASKED_ID :
                            i \in {j \in DOMAIN d.rows : d.rows[j].FACULTY_DESCR = f}})]

\* data[data.ACADEMIC_YEAR == year].groupby('FACULTY_DESCR')['MASKED_ID'].nunique()
EnrollmentByFaculty(d, year) ==
    LET sel  == {i \in DOMAIN d.rows : d.rows[i].ACADEMIC_YEAR = year}
        facs == {d.rows[i].FACULTY_DESCR : i \in sel}
    IN  [f \in facs |->
            Cardinality({d.rows[i].MASKED_ID :
                            i \in {j \in sel : d.rows[j].FACULTY_DESCR = f}})]

EnrollmentRow(label, y1, y2, c1, c2, pct) ==
    ("Faculty" :> label) @@ (ToString(y1) :> c1) @@ (ToString(y2) :> c2)
        @@ ("% Change" :> pct)

\* one faculty row of the comparison table
EnrollmentFacultyRow(faculty, year_1, year_2, count_1, count_2) ==
    EnrollmentRow(faculty, year_1, year_2, count_1, count_2,
                  PctChangeStr(count_1, count_2))

\* the rows, the Grand Total row and the summary put together
EnrollmentTable(year_1, year_2, comparison_table, total_year_1, total_year_2, total_pct_change_str) ==
    [title   |-> "Table 1: Year Comparison with % Change",
     headers |-> <<"Faculty", ToString(year_1), ToString(year_2), "% Change">>,
     rows    |-> Append(comparison_table,
                        EnrollmentRow("Grand Total", year_1, year_2,
                                      total_year_1, total_year_2,
                                      total_pct_change_str)),
     summary |-> [year_1           |-> ToString(year_1),
                  year_2           |-> ToString(year_2),
                  total_change     |-> total_year_2 - total_year_1,
                  total_change_pct |-> total_pct_change_str]]

\* the body of the generator once year_1 < year_2 are chosen
EnrollmentForYears(d, year_1, year_2) ==
    LET WithTotals(comparison_table, total_year_1, total_year_2) ==
            EnrollmentTable(year_1, year_2, comparison_table,
                            total_year_1, total_year_2,
                            TotalPctChangeStr(total_year_1, total_year_2))
        Totalled(comparison_table) ==
            WithTotals(comparison_table,
                       SumField(comparison_table, ToString(year_1)),
                       SumField(comparison_table, ToString(year_2)))
        Rows(enrollment_year_1, enrollment_year_2, all_faculties_in_data) ==
            [i \in DOMAIN all_faculties_in_data |->
                EnrollmentFacultyRow(all_faculties_in_data[i], year_1, year_2,
                    SeriesGet(enrollment_year_1, all_faculties_in_data[i], 0),
                    SeriesGet(enrollment_year_2, all_faculties_in_data[i], 0))]
        FromCounts(enrollment_year_1, enrollment_year_2) ==
            Totalled(Rows(enrollment_year_1, enrollment_year_2,
                          SortStrs(DOMAIN enrollment_year_1
                                      \cup DOMAIN enrollment_year_2)))
    IN  FromCounts(EnrollmentByFaculty(d, year_1), EnrollmentByFaculty(d, year_2))

generate_wil_enrollment_comparison_table(d) ==
    LET FromYears(available_years) ==
            IF Len(available_years) < 2 THEN EmptyDict
            ELSE EnrollmentForYears(d, available_years[Len(available_years) - 1],
                                       available_years[Len(available_years)])
    IN  FromYears(AvailableYears(d))

----------------------------------------------------------------------------
(* Text helpers: str is a sequence of one-character strings *)

NaN == [k |-> "nan"]

LowerLetters == <<"a","b","c","d","e","f","g","h","i","j","k","l","m",
                  "n","o","p","q","r","s","t","u","v","w","x","y","z">>
UpperLetters == <<"A","B","C","D","E","F","G","H","I","J","K","L","M",
                  "N","O","P","Q","R","S","T","U","V","W","X","Y","Z">>

UpperChar(c) ==
    IF \E i \in DOMAIN LowerLetters : LowerLetters[i] = c
    THEN UpperLetters[CHOOSE i \in DOMAIN LowerLetters : LowerLetters[i] = c]
    ELSE c

\* str.upper()
Upper(s) == [i \in DOMAIN s |-> UpperChar(s[i])]

Whitespace == {" ", "\t", "\n", "\r"}

RECURSIVE LStrip(_)
LStrip(s) ==
    IF s # <<>> /\ Head(s) \in Whitespace THEN LStrip(Tail(s)) ELSE s

RECURSIVE RStrip(_)
RStrip(s) ==
    IF s # <<>> /\ s[Len(s)] \in Whitespace
    THEN RStrip(SubSeq(s, 1, Len(s) - 1)) ELSE s

\* str.strip()
Strip(s) == RStrip(LStrip(s))

\* pattern in s
Contains(s, p) ==
    \E i \in 1..(Len(s) - Len(p) + 1) : SubSeq(s, i, i + Len(p) - 1) = p

\* s.startswith(p)
StartsWith(s, p) == Len(p) <= Len(s) /\ SubSeq(s, 1, Len(p)) = p

ContainsAny(s, ps) == \E p \in ps : Contains(s, p)

----------------------------------------------------------------------------
(* Academic-level classifier *)

NonAwardPatterns == { <<"0","0","0","0">>, <<"0","0">> }
ResearchPatterns == { <<"P","H","D">>, <<"R","E","S","E","A","R","C","H">>,
                      <<"R","E","S">> }
ResearchCodes    == { <<"8","0">>, <<"9","0">> }
PostgradCodes    == { <<"9", d>> : d \in {"0","1","2","3","4","5","6","7","8","9"} }
PostgradPatterns == { <<"M","A","S","T">>, <<"G","R","A","D">>, <<"P","G">> }
UndergradCodes   == { <<d, "0">> : d \in {"1","2","3","4","5","6","7","8"} }
UndergradPatterns == { <<"B","A","C","H">>, <<"U","G">>, <<"D","I","P">> }
\* str(i) for i in range(1000, 9000, 1000)
UndergradPrefixes == { <<d, "0", "0", "0">> : d \in {"1","2","3","4","5","6","7","8"} }

\* the classifier with the postgraduate rule tried before the research rule
determine_academic_level_postgraduate_first(course_code) ==
    IF course_code = NaN THEN "Undergraduate"
    ELSE
    LET code == Strip(Upper(course_code))
    IN  IF Contains(code, <<"N","O","N","-","A","W","A","R","D">>)
           \/ ContainsAny(code, NonAwardPatterns)
        THEN "Non-Award"
        ELSE IF Contains(code, <<"C","D","E","V">>)
        THEN "Undergraduate"
        ELSE IF ContainsAny(code, PostgradCodes) \/ ContainsAny(code, PostgradPatterns)
        THEN "Postgraduate"
        ELSE IF ContainsAny(code, ResearchPatterns)
                \/ (ContainsAny(code, ResearchCodes) /\ Contains(code, <<"R","E","S">>))
        THEN "Research"
        ELSE "Undergraduate"

determine_academic_level(course_code) ==
    IF course_code = NaN THEN "Undergraduate"
    ELSE
    LET code == Strip(Upper(course_code))
    IN  IF Contains(code, <<"N","O","N","-","A","W","A","R","D">>)
           \/ ContainsAny(code, NonAwardPatterns)
        THEN "Non-Award"
        ELSE IF Contains(code, <<"C","D","E","V">>)
        THEN "Undergraduate"
        ELSE IF ContainsAny(code, ResearchPatterns)
                \/ (ContainsAny(code, ResearchCodes) /\ Contains(code, <<"R","E","S">>))
        THEN "Research"
        ELSE IF ContainsAny(code, PostgradCodes) \/ ContainsAny(code, PostgradPatterns)
        THEN "Postgraduate"
        ELSE IF ContainsAny(code, UndergradCodes)
                \/ ContainsAny(code, UndergradPatterns)
                \/ \E p \in UndergradPrefixes : StartsWith(code, p)
        THEN "Undergraduate"
        ELSE "Undergraduate"

----------------------------------------------------------------------------
(* Table 2: term breakdown *)

\* f'{year} {term}'
TermColumn(year, term) == ToString(year) \o " " \o ToString(term)

RECURSIVE DictOfSeq(_, _)
\* the dict built by assigning vals[i] to keys[i] in turn
DictOfSeq(keys, vals) ==
    IF keys = <<>> THEN EmptyDict
    ELSE (keys[Len(keys)] :> vals[Len(vals)])
            @@ DictOfSeq(SubSeq(keys, 1, Len(keys) - 1), SubSeq(vals, 1, Len(vals) - 1))

\* the records, not the distinct students, of one faculty in one year and term
TermCountOfRecords(d, faculty, year, term) ==
    Cardinality({j \in DOMAIN d.rows :
                    /\ d.rows[j].FACULTY_DESCR = faculty
                    /\ d.rows[j].ACADEMIC_YEAR = year
                    /\ d.rows[j].TERM = term})

\* distinct students of one faculty in one year and term
TermCount(d, faculty, year, term) ==
    Cardinality({d.rows[i].MASKED_ID :
        i \in {j \in DOMAIN d.rows :
                 /\ d.rows[j].FACULTY_DESCR = faculty
                 /\ d.rows[j].ACADEMIC_YEAR = year
                 /\ d.rows[j].TERM = term}})

\* for year in [year_1, year_2]: for term in available_terms
YearTermPairs(year_1, year_2, available_terms) ==
    [k \in 1..(2 * Len(available_terms)) |->
        <<IF k <= Len(available_terms) THEN year_1 ELSE year_2,
          available_terms[((k - 1) % Len(available_terms)) + 1]>>]

TermTable(year_1, year_2, available_terms, term_columns, table_rows, grand_totals) ==
    [title   |-> "Table 2: Term Breakdown (" \o ToString(year_1) \o "-"
                    \o ToString(year_2) \o ")",
     headers |-> <<"Count of WIL Enrolments", "Term">> \o term_columns,
     rows    |-> Append(table_rows,
                    ("Count of WIL Enrolments" :> "") @@ ("Term" :> "Grand Total")
                        @@ grand_totals),
     summary |-> [total_students  |->
                      SumSeq([k \in DOMAIN term_columns |-> grand_totals[term_columns[k]]]),
                  total_faculties |-> Len(table_rows),
                  years_covered   |-> <<ToString(year_1), ToString(year_2)>>,
                  terms_included  |-> available_terms]]

\* the body of the generator once year_1 < year_2 are chosen
TermBreakdownForYears(d, year_1, year_2) ==
    LET Totalled(available_terms, term_columns, table_rows) ==
            TermTable(year_1, year_2, available_terms, term_columns, table_rows,
                DictOfSeq(term_columns,
                    [k \in DOMAIN term_columns |-> SumField(table_rows, term_columns[k])]))
        Rows(all_faculties_in_data, pairs, term_columns) ==
            [i \in DOMAIN all_faculties_in_data |->
                ("Count of WIL Enrolments" :> "") @@ ("Term" :> all_faculties_in_data[i])
                @@ DictOfSeq(term_columns,
                      [k \in DOMAIN pairs |->
                          TermCount(d, all_faculties_in_data[i], pairs[k][1], pairs[k][2])])]
        FromColumns(all_faculties_in_data, available_terms, pairs, term_columns) ==
            Totalled(available_terms, term_columns,
                     Rows(all_faculties_in_data, pairs, term_columns))
        FromPairs(all_faculties_in_data, available_terms, pairs) ==
            FromColumns(all_faculties_in_data, available_terms, pairs,
                [k \in DOMAIN pairs |-> TermColumn(pairs[k][1], pairs[k][2])])
        FromTerms(all_faculties_in_data, available_terms) ==
            FromPairs(all_faculties_in_data, available_terms,
                      YearTermPairs(year_1, year_2, available_terms))
    IN  FromTerms(SortStrs({d.rows[i].FACULTY_DESCR : i \in DOMAIN d.rows}),
                  SortInts({d.rows[i].TERM : i \in DOMAIN d.rows}))

generate_term_breakdown_table(d) ==
    IF "TERM" \notin d.columns THEN EmptyDict
    ELSE
    LET FromYears(available_years) ==
            IF Len(available_years) < 2 THEN EmptyDict
            ELSE TermBreakdownForYears(d, available_years[Len(available_years) - 1],
                                          available_years[Len(available_years)])
    IN  FromYears(AvailableYears(d))

----------------------------------------------------------------------------
(* Table 3: academic-level demographics *)

preferred_level_order == <<"Non-Award", "Postgraduate", "Undergraduate", "Research">>

\* set(data_with_level[data_with_level['ACADEMIC_YEAR'] == year]['MASKED_ID'].unique())
StudentsOfYear(rows, year) ==
    {rows[i].MASKED_ID : i \in {j \in DOMAIN rows : rows[j].ACADEMIC_YEAR = year}}

\* set(faculty_data[faculty_data['ACADEMIC_YEAR'] == year]['MASKED_ID'].unique())
StudentsOfFaculty(rows, faculty, year) ==
    {rows[i].MASKED_ID :
        i \in {j \in DOMAIN rows :
                 rows[j].ACADEMIC_YEAR = year /\ rows[j].FACULTY_DESCR = faculty}}

\* set(level_data[level_data['ACADEMIC_YEAR'] == year]['MASKED_ID'].unique())
StudentsOfLevel(rows, faculty, level, year) ==
    {rows[i].MASKED_ID :
        i \in {j \in DOMAIN rows :
                 /\ rows[j].ACADEMIC_YEAR = year
                 /\ rows[j].FACULTY_DESCR = faculty
                 /\ rows[j].ACADEMIC_LEVEL = level}}

DemographicsRow(label, y1, y2, c1, c2, pct) ==
    ("Distinct Count of WIL Students" :> label) @@ (ToString(y1) :> c1)
        @@ (ToString(y2) :> c2) @@ ("% Change" :> pct)

RECURSIVE FlattenSeq(_)
\* the rows appended block after block
FlattenSeq(blocks) ==
    IF blocks = <<>> THEN <<>>
    ELSE FlattenSeq(SubSeq(blocks, 1, Len(blocks) - 1)) \o blocks[Len(blocks)]

FacultyTotalSummed(level_sets) == SumSeq([k \in DOMAIN level_sets |-> Cardinality(level_sets[k])])

\* len of the set that every level's students were update()d into
FacultyTotalUnion(level_sets) == Cardinality(UNION {level_sets[k] : k \in DOMAIN level_sets})

GrandTotalSummed(rows, year) ==
    LET faculties == SortStrs({rows[i].FACULTY_DESCR : i \in DOMAIN rows})
    IN  SumSeq([k \in DOMAIN faculties |->
                  Cardinality(StudentsOfFaculty(rows, faculties[k], year))])

\* len(set(data_with_level[ACADEMIC_YEAR == year]['MASKED_ID'].unique()))
GrandTotalDistinct(rows, year) ==
    Cardinality(StudentsOfYear(rows, year))

\* data_with_level: a copy of the rows with the ACADEMIC_LEVEL column added
WithAcademicLevel(rows) ==
    [i \in DOMAIN rows |->
        rows[i] @@ ("ACADEMIC_LEVEL" :> determine_academic_level(rows[i].COURSE_CODE))]

\* the per-level sets of one faculty and year, in ordered_levels order
LevelStudents(data_with_level, faculty, year, ordered_levels) ==
    [k \in DOMAIN ordered_levels |->
        StudentsOfLevel(data_with_level, faculty, ordered_levels[k], year)]

\* the indented level rows with the rows of the empty levels kept
LevelRowsWithEmpty(year_1, year_2, ordered_levels, level_students_year_1, level_students_year_2) ==
    [k \in DOMAIN ordered_levels |->
        DemographicsRow("    " \o ordered_levels[k], year_1, year_2,
            Cardinality(level_students_year_1[k]),
            Cardinality(level_students_year_2[k]),
            PctChangeStr(Cardinality(level_students_year_1[k]),
                         Cardinality(level_students_year_2[k])))]

\* the indented level rows: only levels with a student in either year
LevelRows(year_1, year_2, ordered_levels, level_students_year_1, level_students_year_2) ==
    FlattenSeq(
      [k \in DOMAIN ordered_levels |->
        IF Cardinality(level_students_year_1[k]) > 0
              \/ Cardinality(level_students_year_2[k]) > 0
        THEN <<DemographicsRow("    " \o ordered_levels[k], year_1, year_2,
                  Cardinality(level_students_year_1[k]),
                  Cardinality(level_students_year_2[k]),
                  PctChangeStr(Cardinality(level_students_year_1[k]),
                               Cardinality(level_students_year_2[k])))>>
        ELSE <<>>])

\* the "  Total" row, only if the faculty has a student in either year
SubtotalRows(year_1, year_2, faculty_total_year_1, faculty_total_year_2) ==
    IF faculty_total_year_1 > 0 \/ faculty_total_year_2 > 0
    THEN <<DemographicsRow("  Total", year_1, year_2,
              faculty_total_year_1, faculty_total_year_2,
              PctChangeStr(faculty_total_year_1, faculty_total_year_2))>>
    ELSE <<>>

\* the faculty header row
FacultyHeaderRow(faculty, year_1, year_2, faculty_year_1_total, faculty_year_2_total) ==
    DemographicsRow(faculty, year_1, year_2, faculty_year_1_total, faculty_year_2_total,
                    PctChangeStr(faculty_year_1_total, faculty_year_2_total))

\* one pass of "for faculty in all_faculties_in_data"
FacultyBlock(data_with_level, faculty, year_1, year_2, ordered_levels) ==
    LET FromLevels(level_students_year_1, level_students_year_2) ==
            LevelRows(year_1, year_2, ordered_levels,
                      level_students_year_1, level_students_year_2)
            \o SubtotalRows(year_1, year_2,
                            FacultyTotalUnion(level_students_year_1),
                            FacultyTotalUnion(level_students_year_2))
    IN  <<FacultyHeaderRow(faculty, year_1, year_2,
              Cardinality(StudentsOfFaculty(data_with_level, faculty, year_1)),
              Cardinality(StudentsOfFaculty(data_with_level, faculty, year_2)))>>
        \o FromLevels(LevelStudents(data_with_level, faculty, year_1, ordered_levels),
                      LevelStudents(data_with_level, faculty, year_2, ordered_levels))

DemographicsTable(year_1, year_2, ordered_levels, table_rows, grand_total_year_1, grand_total_year_2, grand_change_str) ==
    [title   |-> "Table 3: Multi-Year Student Demographics Analysis ("
                    \o ToString(year_1) \o " vs " \o ToString(year_2) \o ")",
     headers |-> <<"Distinct Count of WIL Students", ToString(year_1),
                   ToString(year_2), "% Change">>,
     rows    |-> Append(table_rows,
                        DemographicsRow("Grand Total", year_1, year_2,
                            grand_total_year_1, grand_total_year_2,
                            grand_change_str)),
     summary |-> [year_1           |-> ToString(year_1),
                  year_2           |-> ToString(year_2),
                  total_change     |-> grand_total_year_2 - grand_total_year_1,
                  total_change_pct |-> grand_change_str,
                  levels_included  |-> ordered_levels]]

\* the body of the generator once year_1 < year_2 are chosen
DemographicsForYears(data_with_level, year_1, year_2) ==
    LET WithTotals(ordered_levels, table_rows, grand_total_year_1, grand_total_year_2) ==
            DemographicsTable(year_1, year_2, ordered_levels, table_rows,
                grand_total_year_1, grand_total_year_2,
                TotalPctChangeStr(grand_total_year_1, grand_total_year_2))
        FromLevels(all_faculties_in_data, ordered_levels) ==
            WithTotals(ordered_levels,
                FlattenSeq([i \in DOMAIN all_faculties_in_data |->
                              FacultyBlock(data_with_level, all_faculties_in_data[i],
                                           year_1, year_2, ordered_levels)]),
                GrandTotalDistinct(data_with_level, year_1),
                GrandTotalDistinct(data_with_level, year_2))
        FromLevelSet(levels_with_data) ==
            FromLevels(
                SortStrs({data_with_level[i].FACULTY_DESCR : i \in DOMAIN data_with_level}),
                SelectSeq(preferred_level_order, LAMBDA l : l \in levels_with_data))
    IN  FromLevelSet({data_with_level[i].ACADEMIC_LEVEL : i \in DOMAIN data_with_level})

generate_distinct_student_count_table(d) ==
    LET FromYears(available_years) ==
            IF Len(available_years) < 2 THEN EmptyDict
            ELSE DemographicsForYears(WithAcademicLevel(d.rows),
                                      available_years[Len(available_years) - 1],
                                      available_years[Len(available_years)])
    IN  FromYears(AvailableYears(d))

----------------------------------------------------------------------------
(* generate_all_analysis_tables *)

\* the '_metadata' entry is added only when some table was generated
WithMetadata(tables, available_years, now) ==
    IF Truthy(tables)
    THEN tables @@ ("_metadata" :>
            [generation_date  |-> now,
             total_tables     |-> Cardinality(DOMAIN tables),
             years_compared   |-> available_years,
             comparison_years |-> <<available_years[Len(available_years) - 1],
                                    available_years[Len(available_years)]>>])
    ELSE tables

\* tables[name] = table, whatever the table is
EntryOfAnyTable(name, table) == name :> table

\* tables[name] = table, if the table is a non-empty dict
Entry(name, table) == IF Truthy(table) THEN name :> table ELSE EmptyDict

generate_all_analysis_tables(d, now) ==
    IF "ACADEMIC_YEAR" \notin d.columns THEN EmptyDict
    ELSE
    LET FromYears(available_years) ==
            IF Len(available_years) < 2 THEN EmptyDict
            ELSE WithMetadata(
                    Entry("wil_enrollment_comparison",
                          generate_wil_enrollment_comparison_table(d))
                    @@ Entry("term_breakdown", generate_term_breakdown_table(d))
                    @@ Entry("distinct_student_count",
                             generate_distinct_student_count_table(d)),
                    available_years, now)
    IN  FromYears(AvailableYears(d))

----------------------------------------------------------------------------
(* The analyzer as a state machine *)

AllColumns == {"MASKED_ID", "ACADEMIC_YEAR", "FACULTY_DESCR", "COURSE_CODE", "TERM"}

FacultySet == {FacultyNames[i] : i \in DOMAIN FacultyNames}

RowsWithTerm ==
    [MASKED_ID : StudentIds, ACADEMIC_YEAR : Years, FACULTY_DESCR : FacultySet,
     COURSE_CODE : CourseCodes, TERM : Terms]

RowsWithoutTerm ==
    [MASKED_ID : StudentIds, ACADEMIC_YEAR : Years, FACULTY_DESCR : FacultySet,
     COURSE_CODE : CourseCodes]

\* data_with_level = self.data: the same object under a second name
same_object(d) == [table |-> d, is_self_data |-> TRUE]

\* self.data.copy(): a new object with the content of self.data
copy(d) == [table |-> d, is_self_data |-> FALSE]

\* self.data after data_with_level['ACADEMIC_LEVEL'] = ... : the column is
\* written to the object data_with_level names (the generator returns before
\* that with fewer than two years)
DataAfterLevelColumn(d) ==
    IF Len(AvailableYears(d)) >= 2 /\ copy(d).is_self_data
    THEN [columns |-> d.columns \cup {"ACADEMIC_LEVEL"},
          rows    |-> WithAcademicLevel(copy(d).table.rows)]
    ELSE d

\* the generation calls explored on table d
CallBudget(d) == IF Len(d.rows) <= MaxRepeatRows THEN MaxRepeatCalls ELSE MaxCalls

\* after __init__: no table yet
TablesInit ==
    /\ data = None
    /\ calls = 0
    /\ lastCall = "none"
    /\ lastResult = EmptyDict

\* load_data: self.data becomes the table of the (cleaned, filled) file
load_data ==
    /\ data = None
    /\ \E k \in 0..MaxRows :
          \/ \E rs \in [1..k -> RowsWithTerm] :
                data' = [columns |-> AllColumns, rows |-> rs]
          \/ \E rs \in [1..k -> RowsWithoutTerm] :
                data' = [columns |-> AllColumns \ {"TERM"}, rows |-> rs]
    /\ calls' = 0
    /\ lastCall' = "load_data"
    /\ lastResult' = EmptyDict
    /\ UNCHANGED <<cleanerVars, batchVars, mergeVars, levelVars, filenameVars, analyzerVars>>

CallEnrollment ==
    /\ data # None
    /\ calls < CallBudget(data)
    /\ calls' = calls + 1
    /\ lastCall' = "generate_wil_enrollment_comparison_table"
    /\ lastResult' = generate_wil_enrollment_comparison_table(data)
    /\ UNCHANGED <<data, cleanerVars, batchVars, mergeVars, levelVars, filenameVars, analyzerVars>>

CallTermBreakdown ==
    /\ data # None
    /\ calls < CallBudget(data)
    /\ calls' = calls + 1
    /\ lastCall' = "generate_term_breakdown_table"
    /\ lastResult' = generate_term_breakdown_table(data)
    /\ UNCHANGED <<data, cleanerVars, batchVars, mergeVars, levelVars, filenameVars, analyzerVars>>

CallDemographics ==
    /\ data # None
    /\ calls < CallBudget(data)
    /\ calls' = calls + 1
    /\ lastCall' = "generate_distinct_student_count_table"
    /\ lastResult' = generate_distinct_student_count_table(data)
    /\ data' = DataAfterLevelColumn(data)
    /\ UNCHANGED <<cleanerVars, batchVars, mergeVars, levelVars, filenameVars, analyzerVars>>

CallAllTables ==
    /\ data # None
    /\ calls < CallBudget(data)
    /\ calls' = calls + 1
    /\ \E now \in Timestamps :
          lastResult' = generate_all_analysis_tables(data, now)
    /\ lastCall' = "generate_all_analysis_tables"
    /\ data' = DataAfterLevelColumn(data)
    /\ UNCHANGED <<cleanerVars, batchVars, mergeVars, levelVars, filenameVars, analyzerVars>>

TablesNext ==
    \/ load_data
    \/ CallEnrollment
    \/ CallTermBreakdown
    \/ CallDemographics
    \/ CallAllTables

\* the largest table of the term-breakdown exploration
MaxTermRows == 3

\* tables with two terms
TermsOfYear == {1, 2}

TermRows ==
    [MASKED_ID : StudentIds, ACADEMIC_YEAR : Years, FACULTY_DESCR : FacultySet,
     COURSE_CODE : {<<"C","O","M","P","9","4","1","7">>}, TERM : TermsOfYear]

TermRowsWithoutTerm ==
    [MASKED_ID : StudentIds, ACADEMIC_YEAR : Years, FACULTY_DESCR : FacultySet,
     COURSE_CODE : {<<"C","O","M","P","9","4","1","7">>}]

\* load_data on a file of a year with two terms
load_term_data ==
    /\ data = None
    /\ \E k \in 0..MaxTermRows :
          \/ \E rs \in [1..k -> TermRows] :
                data' = [columns |-> AllColumns, rows |-> rs]
          \/ \E rs \in [1..k -> TermRowsWithoutTerm] :
                data' = [columns |-> AllColumns \ {"TERM"}, rows |-> rs]
    /\ calls' = 0
    /\ lastCall' = "load_data"
    /\ lastResult' = EmptyDict
    /\ UNCHANGED <<cleanerVars, batchVars, mergeVars, levelVars, filenameVars, analyzerVars>>

TermNext ==
    \/ load_term_data
    \/ CallTermBreakdown

----------------------------------------------------------------------------
(* DataCleaner: cells, columns and the cleaning log *)
(* A table of the cleaner keeps its columns in file order.  A cell is a   *)
(* number Num(n), a text Str(s) with s its characters, or the missing     *)
(* marker NaN.                                                            *)

Num(n) == [k |-> "num", v |-> n]

Str(s) == [k |-> "str", s |-> s]

SeqToSet(xs) == {xs[i] : i \in DOMAIN xs}

\* fields that should be integer type
integer_fields ==
    <<"ACADEMIC_YEAR", "TERM", "ACAD_PROG", "COURSE_ID",
      "OFFER_NUMBER", "CATALOG_NUMBER", "MASKED_ID">>

\* text fields that need cleaning
text_fields ==
    <<"FACULTY_DESCR", "SCHOOL_NAME", "COURSE_NAME",
      "TERM_DESCR", "ACADEMIC_PROGRAM_DESCR", "ATSI_DESC",
      "REGIONAL_REMOTE", "ADMISSION_PATHWAY", "COURSE_CODE">>

\* expected values of the categorical variables, for the categorical columns
\* the tables of this model can have, in the order of the dict
categorical_fields == <<"GENDER", "CRSE_ATTR">>

categorical_expectations ==
    [GENDER |-> {<<"M">>, <<"F">>, <<"U">>}, CRSE_ATTR |-> {<<"W", "I", "L", "C">>}]

\* log_action: the entry appended to cleaning_log (its timestamp is left out)
log_action(action, details) == [action |-> action, details |-> details]

\* df[column].isnull().sum()
IsNullCount(d, column) == Cardinality({i \in DOMAIN d.rows : d.rows[i][column] = NaN})

\* df.isnull().sum().to_dict()
MissingStats(d) == [c \in SeqToSet(d.columns) |-> IsNullCount(d, c)]

\* df.isnull().sum().sum()
TotalMissing(d) == SumSeq([k \in DOMAIN d.columns |-> IsNullCount(d, d.columns[k])])

\* df.shape
Shape(d) == <<Len(d.rows), Len(d.columns)>>

\* df[field].dropna().unique()
UniqueValues(d, field) ==
    {d.rows[i][field].s : i \in {j \in DOMAIN d.rows : d.rows[j][field] # NaN}}

\* df[field].value_counts().to_dict()
ValueCounts(d, field) ==
    [v \in UniqueValues(d, field) |->
        Cardinality({i \in DOMAIN d.rows : d.rows[i][field] = Str(v)})]

----------------------------------------------------------------------------
(* DataCleaner.handle_missing_values *)

\* df.replace('', np.nan) and df.replace(' ', np.nan): whole-cell matches
ReplaceBlank(cell) ==
    IF cell.k = "str" /\ cell.s \in {<<>>, <<" ">>} THEN NaN ELSE cell

BlanksReplaced(d) ==
    [d EXCEPT !.rows =
        [i \in DOMAIN d.rows |->
            [c \in DOMAIN d.rows[i] |-> ReplaceBlank(d.rows[i][c])]]]

----------------------------------------------------------------------------
(* DataCleaner.convert_data_types *)

Digits == <<"0", "1", "2", "3", "4", "5", "6", "7", "8", "9">>

IsDigit(c) == \E i \in DOMAIN Digits : Digits[i] = c

DigitValue(c) == (CHOOSE i \in DOMAIN Digits : Digits[i] = c) - 1

RECURSIVE ParseInt(_)
ParseInt(s) ==
    IF s = <<>> THEN 0
    ELSE 10 * ParseInt(SubSeq(s, 1, Len(s) - 1)) + DigitValue(s[Len(s)])

RECURSIVE IntToChars(_)
IntToChars(n) ==
    IF n < 10 THEN <<Digits[n + 1]>>
    ELSE IntToChars(n \div 10) \o <<Digits[(n % 10) + 1]>>

\* a float: whole + 0.frac, frac being the decimals without trailing zeros
Float(whole, frac) == [k |-> "float", v |-> whole, frac |-> frac]

AllDigits(s) == s # <<>> /\ \A i \in DOMAIN s : IsDigit(s[i])

RECURSIVE StripZeros(_)
\* the decimals without their trailing zeros
StripZeros(s) ==
    IF s # <<>> /\ s[Len(s)] = "0" THEN StripZeros(SubSeq(s, 1, Len(s) - 1)) ELSE s

\* the places of the decimal point in a text of digits, a point and digits
PointOf(s) ==
    {p \in DOMAIN s : /\ s[p] = "."
                      /\ AllDigits(SubSeq(s, 1, p - 1))
                      /\ AllDigits(SubSeq(s, p + 1, Len(s)))}

\* errors='ignore': a text that is not a number is left as it is
to_numeric_ignore(cell) ==
    IF cell.k = "str" /\ AllDigits(cell.s) THEN Num(ParseInt(cell.s)) ELSE cell

\* pd.to_numeric(errors='coerce') on one cell: a number stays, a text of
\* digits is its integer, a text of digits with a decimal point is a float,
\* any other text and a missing cell are missing
to_numeric(cell) ==
    IF cell.k \in {"num", "float"} THEN cell
    ELSE IF cell.k = "str" /\ AllDigits(cell.s)
         THEN Num(ParseInt(cell.s))
    ELSE IF cell.k = "str" /\ PointOf(cell.s) # {}
         THEN LET p == CHOOSE q \in PointOf(cell.s) : TRUE
              IN  Float(ParseInt(SubSeq(cell.s, 1, p - 1)),
                        StripZeros(SubSeq(cell.s, p + 1, Len(cell.s))))
    ELSE NaN

\* the cell in a float64 column
AsFloat(cell) == IF cell.k = "num" THEN Float(cell.v, <<>>) ELSE cell

\* the cell in an Int64 column, for a float without decimals
AsInt64(cell) == IF cell.k = "float" THEN Num(cell.v) ELSE cell

\* astype('Int64') raises TypeError on the column: a value has decimals
CannotCast(d, field) ==
    \E i \in DOMAIN d.rows :
        to_numeric(d.rows[i][field]).k = "float" /\ to_numeric(d.rows[i][field]).frac # <<>>

\* astype(str): a missing cell becomes the text 'nan'
AsStr(cell) ==
    IF cell = NaN THEN Str(<<"n", "a", "n">>)
    ELSE IF cell.k = "num" THEN Str(IntToChars(cell.v))
    ELSE IF cell.k = "float"
    THEN Str(IntToChars(cell.v) \o <<".">> \o (IF cell.frac = <<>> THEN <<"0">> ELSE cell.frac))
    ELSE cell

\* replace('nan', np.nan)
ReplaceNanText(cell) == IF cell = Str(<<"n", "a", "n">>) THEN NaN ELSE cell

\* a cell of column `column` of table d after the conversion: an integer
\* field keeps the result of to_numeric when the cast to Int64 raises
ConvertCell(d, column, cell) ==
    IF column \in SeqToSet(integer_fields)
    THEN (IF CannotCast(d, column) THEN AsFloat(to_numeric(cell))
          ELSE AsInt64(to_numeric(cell)))
    ELSE ReplaceNanText(AsStr(cell))

TypesConverted(d) ==
    [d EXCEPT !.rows =
        [i \in DOMAIN d.rows |->
            [c \in DOMAIN d.rows[i] |-> ConvertCell(d, c, d.rows[i][c])]]]

\* conversion_errors: one text per integer field whose cast raised
ConversionErrors(d) ==
    LET Failed(field) == field \in SeqToSet(d.columns) /\ CannotCast(d, field)
        fields == SelectSeq(integer_fields, Failed)
    IN  [k \in DOMAIN fields |->
            fields[k] \o ": cannot safely cast non-equivalent float64 to int64"]

\* one "Data Type Conversion" entry per integer field of the table that was
\* cast, then the "Data Type Conversion Errors" entry if a cast raised
ConversionLog(d) ==
    LET Cast(field) == field \in SeqToSet(d.columns) /\ ~CannotCast(d, field)
        fields == SelectSeq(integer_fields, Cast)
    IN  [k \in DOMAIN fields |->
            log_action("Data Type Conversion", fields[k] \o " converted to integer type")]
        \o (IF ConversionErrors(d) # <<>>
            THEN << log_action("Data Type Conversion Errors", ToString(ConversionErrors(d))) >>
            ELSE <<>>)

----------------------------------------------------------------------------
(* DataCleaner.clean_text_fields *)

\* astype(str).str.strip() then replace('nan', np.nan), on a text field
CleanTextCell(column, cell) ==
    IF column \in SeqToSet(text_fields)
    THEN ReplaceNanText(Str(Strip(AsStr(cell).s)))
    ELSE cell

TextCleaned(d) ==
    [d EXCEPT !.rows =
        [i \in DOMAIN d.rows |->
            [c \in DOMAIN d.rows[i] |-> CleanTextCell(c, d.rows[i][c])]]]

TextFieldCount(d) == Cardinality(SeqToSet(text_fields) \cap SeqToSet(d.columns))

----------------------------------------------------------------------------
(* DataCleaner.fill_missing_values *)

Unknown == <<"U", "n", "k", "n", "o", "w", "n">>

\* a fill whose result is not assigned back to the column
fillna_discarded(cell, value) == cell

\* Series.fillna(value), cell by cell
fillna(cell, value) == IF cell = NaN THEN value ELSE cell

\* a filler that writes the text into every column
FillValueUnknownOnly(column) == Str(Unknown)

FillValue(column) ==
    IF column \in SeqToSet(integer_fields) THEN Num(0) ELSE Str(Unknown)

MissingFilled(d) ==
    [d EXCEPT !.rows =
        [i \in DOMAIN d.rows |->
            [c \in DOMAIN d.rows[i] |-> fillna(d.rows[i][c], FillValue(c))]]]

FillDetails(d, column) ==
    column \o ": filled " \o ToString(IsNullCount(d, column)) \o " missing values with "
        \o (IF column \in SeqToSet(integer_fields) THEN "0" ELSE "'Unknown'")

\* one "Missing Value Fill" entry per column that had missing cells, in column
\* order, then the "Missing Value Fill Complete" entry
FillLog(d) ==
    LET HadMissing(column) == IsNullCount(d, column) > 0
        filled == SelectSeq(d.columns, HadMissing)
    IN  [k \in DOMAIN filled |-> log_action("Missing Value Fill", FillDetails(d, filled[k]))]
        \o << log_action("Missing Value Fill Complete",
                         "Total filled: " \o ToString(TotalMissing(d)) \o " missing values") >>

----------------------------------------------------------------------------
(* DataCleaner.standardize_gender and validate_categorical_variables *)

gender_mapping == {<<"U">>, <<"M">>, <<"F">>}

\* the entries standardize_gender logs; the table is left as it is
GenderLog(d) ==
    IF "GENDER" \notin SeqToSet(d.columns) THEN <<>>
    ELSE (IF UniqueValues(d, "GENDER") \ gender_mapping # {}
          THEN << log_action("Gender Field Anomaly",
                             "Found unexpected gender values: "
                                \o ToString(UniqueValues(d, "GENDER") \ gender_mapping)) >>
          ELSE <<>>)
         \o << log_action("Gender Field Standardization",
                          "Gender distribution: " \o ToString(ValueCounts(d, "GENDER"))) >>

\* the categorical fields of the table, in the order of categorical_expectations
CategoricalFieldsOf(d) ==
    LET InTable(field) == field \in SeqToSet(d.columns)
    IN  SelectSeq(categorical_fields, InTable)

UnexpectedValues(d, field) == UniqueValues(d, field) \ categorical_expectations[field]

\* validation_issues
ValidationIssues(d) ==
    LET HasUnexpected(field) == UnexpectedValues(d, field) # {}
        fields == SelectSeq(CategoricalFieldsOf(d), HasUnexpected)
    IN  [k \in DOMAIN fields |->
            fields[k] \o ": Found unexpected values " \o ToString(UnexpectedValues(d, fields[k]))]

ValidationLog(d) ==
    IF ValidationIssues(d) # <<>>
    THEN log_action("Categorical Variable Validation", ToString(ValidationIssues(d)))
    ELSE log_action("Categorical Variable Validation",
                    "All categorical variables meet expectations")

\* quality_report[f'{field}_distribution'] for every categorical field of the table
Distributions(d) ==
    [key \in {f \o "_distribution" : f \in SeqToSet(CategoricalFieldsOf(d))} |->
        LET field == CHOOSE f \in SeqToSet(CategoricalFieldsOf(d)) : f \o "_distribution" = key
        IN  ValueCounts(d, field)]

\* dict update: the entries of new replace those of old
Update(old, new) == new @@ old

----------------------------------------------------------------------------
(* DataCleaner.check_duplicates *)

RowKey(row, subset) == [c \in subset |-> row[c]]

\* df.duplicated(subset, keep='last'): the rows whose key a later row repeats
duplicated_keep_last(rows, subset) ==
    {i \in DOMAIN rows :
        \E j \in (i + 1)..Len(rows) : RowKey(rows[j], subset) = RowKey(rows[i], subset)}

\* df.duplicated(subset): the rows that repeat the key of an earlier row
duplicated(rows, subset) ==
    {i \in DOMAIN rows :
        \E j \in 1..(i - 1) : RowKey(rows[j], subset) = RowKey(rows[i], subset)}

RECURSIVE WithoutRows(_, _)
\* the rows whose index is not in dropped, in order
WithoutRows(rows, dropped) ==
    IF rows = <<>> THEN <<>>
    ELSE WithoutRows(SubSeq(rows, 1, Len(rows) - 1), dropped)
            \o (IF Len(rows) \in dropped THEN <<>> ELSE <<rows[Len(rows)]>>)

\* drop_duplicates(keep=False): every row of a repeated key is dropped
drop_duplicates_keep_none(rows, subset) ==
    WithoutRows(rows,
        {i \in DOMAIN rows :
            \E j \in DOMAIN rows : j # i /\ RowKey(rows[j], subset) = RowKey(rows[i], subset)})

\* df.drop_duplicates(subset): the first row of each key is kept
drop_duplicates(rows, subset) == WithoutRows(rows, duplicated(rows, subset))

business_key == {"MASKED_ID", "TERM", "COURSE_CODE"}

\* the table after the exact-duplicate pass
ExactDeduplicated(d) ==
    IF duplicated(d.rows, SeqToSet(d.columns)) # {}
    THEN [d EXCEPT !.rows = drop_duplicates(d.rows, SeqToSet(d.columns))]
    ELSE d

ExactDuplicateLog(d) ==
    IF duplicated(d.rows, SeqToSet(d.columns)) # {}
    THEN << log_action("Duplicate Records",
                       "Removed " \o ToString(Cardinality(duplicated(d.rows, SeqToSet(d.columns))))
                          \o " completely duplicate rows") >>
    ELSE <<>>

\* the table after the business-key pass, d being the table after the first pass
BusinessDeduplicated(d) ==
    IF business_key \subseteq SeqToSet(d.columns) /\ duplicated(d.rows, business_key) # {}
    THEN [d EXCEPT !.rows = drop_duplicates(d.rows, business_key)]
    ELSE d

BusinessDuplicateLog(d) ==
    IF business_key \subseteq SeqToSet(d.columns) /\ duplicated(d.rows, business_key) # {}
    THEN << log_action("Business Duplicate Records",
                       "Removed " \o ToString(Cardinality(duplicated(d.rows, business_key)))
                          \o " duplicate records for same student/term/course") >>
    ELSE <<>>

Deduplicated(d) == BusinessDeduplicated(ExactDeduplicated(d))

DuplicateLog(d) == ExactDuplicateLog(d) \o BusinessDuplicateLog(ExactDeduplicated(d))

----------------------------------------------------------------------------
(* DataCleaner.check_data_consistency *)

\* ^[A-Z]{4}\d{4}$ ; a missing cell does not match (na=False)
MatchesCoursePattern(cell) ==
    /\ cell # NaN
    /\ cell.k = "str"
    /\ Len(cell.s) = 8
    /\ \A i \in 1..4 : \E u \in DOMAIN UpperLetters : UpperLetters[u] = cell.s[i]
    /\ \A i \in 5..8 : IsDigit(cell.s[i])

HasColumn(d, column) == column \in SeqToSet(d.columns)

\* df.groupby('FACULTY')['FACULTY_DESCR'].nunique(): the groups are the
\* FACULTY values that are not missing, and missing descriptions do not count
FacultyMapping(d) ==
    [f \in {d.rows[i]["FACULTY"] : i \in {j \in DOMAIN d.rows : d.rows[j]["FACULTY"] # NaN}} |->
        Cardinality({d.rows[i]["FACULTY_DESCR"] :
                        i \in {j \in DOMAIN d.rows : /\ d.rows[j]["FACULTY"] = f
                                                     /\ d.rows[j]["FACULTY_DESCR"] # NaN}})]

\* faculty_mapping[faculty_mapping > 1]
InconsistentFaculties(d) ==
    [f \in {g \in DOMAIN FacultyMapping(d) : FacultyMapping(d)[g] > 1} |-> FacultyMapping(d)[f]]

\* df[~df['COURSE_CODE'].str.match(course_pattern, na=False)]
InvalidCourses(d) == {i \in DOMAIN d.rows : ~MatchesCoursePattern(d.rows[i]["COURSE_CODE"])}

WILC == <<"W", "I", "L", "C">>

\* df[df['CRSE_ATTR'] != 'WILC']['CRSE_ATTR'].value_counts(): a missing cell
\* differs from 'WILC' and is not counted by value_counts
NonWilc(d) ==
    [v \in {d.rows[i]["CRSE_ATTR"] :
               i \in {j \in DOMAIN d.rows : d.rows[j]["CRSE_ATTR"] \notin {NaN, Str(WILC)}}} |->
        Cardinality({i \in DOMAIN d.rows : d.rows[i]["CRSE_ATTR"] = v})]

\* re.search(r'\d{4}$', str(course_code)): the number, or None (a missing cell)
extract_number_from_course_code(course_code) ==
    IF /\ course_code # NaN
       /\ Len(course_code.s) >= 4
       /\ \A i \in (Len(course_code.s) - 3)..Len(course_code.s) : IsDigit(course_code.s[i])
    THEN Num(ParseInt(SubSeq(course_code.s, Len(course_code.s) - 3, Len(course_code.s))))
    ELSE NaN

\* drop that leaves the table as it is
drop_nothing(d, column) == d

\* df.drop(column, axis=1)
drop(d, column) ==
    LET Other(c) == c # column
    IN  [columns |-> SelectSeq(d.columns, Other),
         rows |-> [i \in DOMAIN d.rows |->
                     [c \in (DOMAIN d.rows[i]) \ {column} |-> d.rows[i][c]]]]

\* df[column] = values: a new column is the last one, an old one keeps its place
WithColumn(d, column, values) ==
    [columns |-> IF HasColumn(d, column) THEN d.columns ELSE Append(d.columns, column),
     rows |-> [i \in DOMAIN d.rows |->
                 [c \in (DOMAIN d.rows[i]) \cup {column} |->
                     IF c = column THEN values[i] ELSE d.rows[i][c]]]]

\* df with the column extracted_number
WithExtractedNumber(d) ==
    WithColumn(d, "extracted_number",
               [i \in DOMAIN d.rows |->
                   extract_number_from_course_code(d.rows[i]["COURSE_CODE"])])

\* df[df['CATALOG_NUMBER'] != df['extracted_number']] on the nullable integer
\* column: a missing catalog number compares as missing and selects nothing
InconsistentRecords(d) ==
    {i \in DOMAIN d.rows :
        /\ d.rows[i]["CATALOG_NUMBER"] # NaN
        /\ d.rows[i]["CATALOG_NUMBER"] # d.rows[i]["extracted_number"]}

CatalogChecked(d) == HasColumn(d, "CATALOG_NUMBER") /\ HasColumn(d, "COURSE_CODE")

\* the table check_data_consistency returns
ConsistencyChecked(d) ==
    IF CatalogChecked(d) THEN drop(WithExtractedNumber(d), "extracted_number") ELSE d

\* consistency_issues, for the checks whose columns the table has
ConsistencyIssues(d) ==
    (IF /\ HasColumn(d, "FACULTY") /\ HasColumn(d, "FACULTY_DESCR")
        /\ DOMAIN InconsistentFaculties(d) # {}
     THEN << "FACULTY-FACULTY_DESCR mapping inconsistent: "
                \o ToString(InconsistentFaculties(d)) >>
     ELSE <<>>)
    \o (IF HasColumn(d, "COURSE_CODE") /\ InvalidCourses(d) # {}
        THEN << "Found " \o ToString(Cardinality(InvalidCourses(d)))
                   \o " COURSE_CODE with incorrect format" >>
        ELSE <<>>)
    \o (IF HasColumn(d, "CRSE_ATTR") /\ DOMAIN NonWilc(d) # {}
        THEN << "Found non-WILC CRSE_ATTR values: " \o ToString(NonWilc(d)) >>
        ELSE <<>>)
    \o (IF CatalogChecked(d) /\ InconsistentRecords(WithExtractedNumber(d)) # {}
        THEN << "Found " \o ToString(Cardinality(InconsistentRecords(WithExtractedNumber(d))))
                   \o " records with CATALOG_NUMBER-COURSE_CODE inconsistency" >>
        ELSE <<>>)

ConsistencyLog(d) ==
    IF ConsistencyIssues(d) # <<>>
    THEN log_action("Data Consistency Check", ToString(ConsistencyIssues(d)))
    ELSE log_action("Data Consistency Check", "Data consistency check passed")

----------------------------------------------------------------------------
(* DataCleaner.save_cleaned_data and generate_quality_report *)

\* str(df['ACADEMIC_YEAR'].iloc[0]), or "unknown" without the column
YearOf(d) ==
    IF "ACADEMIC_YEAR" \notin SeqToSet(d.columns) THEN "unknown"
    ELSE IF d.rows[1]["ACADEMIC_YEAR"] = NaN THEN "<NA>"
    ELSE ToString(d.rows[1]["ACADEMIC_YEAR"].v)

\* iloc[0] on a table without rows raises IndexError
SaveRaises(d) == "ACADEMIC_YEAR" \in SeqToSet(d.columns) /\ d.rows = <<>>

CleanedFileName(d) == "WIL_" \o YearOf(d) \o "_cleaned.csv"

ReportFileName(d, batch_id) == "data_cleaning_report_" \o YearOf(d) \o "_" \o batch_id \o ".txt"

\* (count / len(df)) * 100 as the report prints it, in hundredths of a
\* percent; a count over no rows is numpy's inf
Percent(count, n) ==
    IF n = 0 THEN "inf" ELSE (2 * 10000 * count + n) \div (2 * n)

\* section 3: for every categorical field of the table that has a recorded
\* distribution, its values with count and percentage of len(df)
ReportDistribution(d, quality) ==
    [field \in {f \in SeqToSet(CategoricalFieldsOf(d)) :
                   (f \o "_distribution") \in DOMAIN quality} |->
        [v \in DOMAIN quality[field \o "_distribution"] |->
            [count |-> quality[field \o "_distribution"][v],
             pct   |-> Percent(quality[field \o "_distribution"][v], Len(d.rows))]]]

\* the figures of the report: the overview, the columns with missing cells,
\* the categorical distributions and the operation log
QualityReport(d, original, log, quality) ==
    [original_records |-> original[1],
     cleaned_records  |-> Len(d.rows),
     removed_records  |-> original[1] - Len(d.rows),
     number_of_fields |-> Len(d.columns),
     missing          |-> [c \in {x \in SeqToSet(d.columns) : IsNullCount(d, x) > 0} |->
                              IsNullCount(d, c)],
     distribution     |-> ReportDistribution(d, quality),
     log              |-> log]

SaveLog(d, batch_id) ==
    << log_action("Data Saving", "Cleaned data saved to: " \o CleanedFileName(d)),
       log_action("Report Saving", "Quality report saved to: " \o ReportFileName(d, batch_id)) >>

----------------------------------------------------------------------------
(* The input files of the cleaner *)

\* the largest number of rows of an input file
MaxCleanRows == 3

\* the largest number of times fill_missing_values is run on one table
MaxFillRuns == 2

COMP9417 == <<"C", "O", "M", "P", "9", "4", "1", "7">>

ColumnsWithTerm == <<"ACADEMIC_YEAR", "TERM", "COURSE_CODE", "MASKED_ID", "GENDER">>

ColumnsWithoutTerm == <<"ACADEMIC_YEAR", "COURSE_CODE", "MASKED_ID", "GENDER">>

\* raw cells as the reader delivers them: a year column of numbers, an id
\* column of text, a course code with or without a leading blank or of two
\* blanks, a gender that may be a single blank
RawCourseCodes == {Str(COMP9417), Str(<<" ">> \o COMP9417), Str(<<" ", " ">>)}

RawIds == {Str(<<"1">>), Str(<<"x">>)}

RawGenders == {Str(<<"M">>), Str(<<" ">>)}

RawRowsWithTerm ==
    [ACADEMIC_YEAR : {Num(2024)}, TERM : {Num(1)}, COURSE_CODE : RawCourseCodes,
     MASKED_ID : RawIds, GENDER : RawGenders]

RawRowsWithoutTerm ==
    [ACADEMIC_YEAR : {Num(2024)}, COURSE_CODE : RawCourseCodes,
     MASKED_ID : RawIds, GENDER : RawGenders]

SupportedExtensions == {".xlsx", ".xls", ".csv"}

Extensions == {".csv", ".txt"}

----------------------------------------------------------------------------
(* DataCleaner as a state machine: the methods in the order of clean_data *)

CleanerInit ==
    /\ df = None
    /\ pc = "__init__"
    /\ fill_missing = FALSE
    /\ cleaning_log = <<>>
    /\ quality_report = EmptyDict
    /\ original_shape = None
    /\ cleaned_shape = None
    /\ report = None

\* the entry read_data logs for the table it read
ReadingLog(table) ==
    log_action("Data Reading", "Successfully read CSV file, shape: " \o ToString(Shape(table)))

\* the entry handle_missing_values logs on table d
MissingHandlingLog(d) ==
    log_action("Missing Value Handling",
               "Converted empty strings to NaN, total missing: "
                  \o ToString(TotalMissing(BlanksReplaced(d))))

\* the entry clean_text_fields logs on table d
TextCleaningLog(d) ==
    log_action("Text Cleaning", "Cleaned " \o ToString(TextFieldCount(d)) \o " text fields")

\* clean_data is entered with its fill_missing argument and reads the file
ReadTable(table, fill) ==
    /\ df' = table
    /\ fill_missing' = fill
    /\ pc' = "read_data"
    /\ cleaning_log' = Append(cleaning_log, ReadingLog(table))
    /\ original_shape' = Shape(table)
    /\ UNCHANGED <<quality_report, cleaned_shape, report>>

read_data ==
    /\ pc = "__init__"
    /\ \E fill \in BOOLEAN, k \in 0..MaxCleanRows :
          \/ \E rs \in [1..k -> RawRowsWithTerm] :
                ReadTable([columns |-> ColumnsWithTerm, rows |-> rs], fill)
          \/ \E rs \in [1..k -> RawRowsWithoutTerm] :
                ReadTable([columns |-> ColumnsWithoutTerm, rows |-> rs], fill)
    /\ UNCHANGED <<file_path, encodings_tried>>
    /\ UNCHANGED <<tableVars, batchVars, mergeVars, levelVars, filenameVars, analyzerVars>>

\* read_data on a file that is neither CSV nor Excel: ValueError, logged and raised
read_data_unsupported ==
    /\ pc = "__init__"
    /\ \E fill \in BOOLEAN, ext \in Extensions \ SupportedExtensions :
          /\ fill_missing' = fill
          /\ cleaning_log' = Append(cleaning_log,
                log_action("Data Reading Error",
                           "Unsupported file format: " \o ext
                              \o ". Supported formats: .csv, .xlsx, .xls"))
    /\ pc' = "raised"
    /\ UNCHANGED <<df, quality_report, original_shape, cleaned_shape, report>>
    /\ UNCHANGED <<file_path, encodings_tried>>
    /\ UNCHANGED <<tableVars, batchVars, mergeVars, levelVars, filenameVars, analyzerVars>>

handle_missing_values ==
    /\ pc = "read_data"
    /\ df' = BlanksReplaced(df)
    /\ quality_report' =
          Update(quality_report, "missing_values_before" :> MissingStats(BlanksReplaced(df)))
    /\ cleaning_log' = Append(cleaning_log, MissingHandlingLog(df))
    /\ pc' = "handle_missing_values"
    /\ UNCHANGED <<fill_missing, original_shape, cleaned_shape, report>>
    /\ UNCHANGED <<file_path, encodings_tried>>
    /\ UNCHANGED <<tableVars, batchVars, mergeVars, levelVars, filenameVars, analyzerVars>>

convert_data_types ==
    /\ pc \in {"handle_missing_values", "table read"}
    /\ df' = TypesConverted(df)
    /\ cleaning_log' = cleaning_log \o ConversionLog(df)
    /\ pc' = "convert_data_types"
    /\ UNCHANGED <<fill_missing, quality_report, original_shape, cleaned_shape, report>>
    /\ UNCHANGED <<file_path, encodings_tried>>
    /\ UNCHANGED <<tableVars, batchVars, mergeVars, levelVars, filenameVars, analyzerVars>>

clean_text_fields ==
    /\ pc = "convert_data_types"
    /\ df' = TextCleaned(df)
    /\ cleaning_log' = Append(cleaning_log, TextCleaningLog(df))
    /\ pc' = "clean_text_fields"
    /\ UNCHANGED <<fill_missing, quality_report, original_shape, cleaned_shape, report>>
    /\ UNCHANGED <<file_path, encodings_tried>>
    /\ UNCHANGED <<tableVars, batchVars, mergeVars, levelVars, filenameVars, analyzerVars>>

\* the number of completed runs of fill_missing_values
FillRuns ==
    Cardinality({i \in DOMAIN cleaning_log :
                    cleaning_log[i].action = "Missing Value Fill Complete"})

\* step 5 of clean_data when fill_missing is set; the method is public and a
\* caller may run it again on the table it has filled
fill_missing_values ==
    /\ fill_missing
    /\ \/ pc = "clean_text_fields"
       \/ pc = "fill_missing_values" /\ FillRuns < MaxFillRuns
    /\ df' = MissingFilled(df)
    /\ cleaning_log' = cleaning_log \o FillLog(df)
    /\ pc' = "fill_missing_values"
    /\ UNCHANGED <<fill_missing, quality_report, original_shape, cleaned_shape, report>>
    /\ UNCHANGED <<file_path, encodings_tried>>
    /\ UNCHANGED <<tableVars, batchVars, mergeVars, levelVars, filenameVars, analyzerVars>>

standardize_gender ==
    /\ \/ pc = "fill_missing_values"
       \/ pc = "clean_text_fields" /\ ~fill_missing
    /\ cleaning_log' = cleaning_log \o GenderLog(df)
    /\ pc' = "standardize_gender"
    /\ UNCHANGED <<df, fill_missing, quality_report, original_shape, cleaned_shape, report>>
    /\ UNCHANGED <<file_path, encodings_tried>>
    /\ UNCHANGED <<tableVars, batchVars, mergeVars, levelVars, filenameVars, analyzerVars>>

validate_categorical_variables ==
    /\ pc = "standardize_gender"
    /\ quality_report' = Update(quality_report, Distributions(df))
    /\ cleaning_log' = Append(cleaning_log, ValidationLog(df))
    /\ pc' = "validate_categorical_variables"
    /\ UNCHANGED <<df, fill_missing, original_shape, cleaned_shape, report>>
    /\ UNCHANGED <<file_path, encodings_tried>>
    /\ UNCHANGED <<tableVars, batchVars, mergeVars, levelVars, filenameVars, analyzerVars>>

check_duplicates ==
    /\ pc = "validate_categorical_variables"
    /\ df' = Deduplicated(df)
    /\ cleaning_log' = cleaning_log \o DuplicateLog(df)
    /\ pc' = "check_duplicates"
    /\ UNCHANGED <<fill_missing, quality_report, original_shape, cleaned_shape, report>>
    /\ UNCHANGED <<file_path, encodings_tried>>
    /\ UNCHANGED <<tableVars, batchVars, mergeVars, levelVars, filenameVars, analyzerVars>>

check_data_consistency ==
    /\ pc \in {"check_duplicates", "cleaned table"}
    /\ df' = ConsistencyChecked(df)
    /\ cleaning_log' = Append(cleaning_log, ConsistencyLog(df))
    /\ pc' = "check_data_consistency"
    /\ UNCHANGED <<fill_missing, quality_report, original_shape, cleaned_shape, report>>
    /\ UNCHANGED <<file_path, encodings_tried>>
    /\ UNCHANGED <<tableVars, batchVars, mergeVars, levelVars, filenameVars, analyzerVars>>

\* save_cleaned_data: the report is generated from the log so far, then the
\* two saving entries are logged; without rows the year lookup raises
save_cleaned_data ==
    /\ pc = "check_data_consistency"
    /\ IF SaveRaises(df)
       THEN /\ pc' = "raised"
            /\ UNCHANGED <<cleaning_log, cleaned_shape, report>>
       ELSE /\ pc' = "save_cleaned_data"
            /\ cleaned_shape' = Shape(df)
            /\ report' = QualityReport(df, original_shape, cleaning_log, quality_report)
            /\ \E batch_id \in Timestamps :
                  cleaning_log' = cleaning_log \o SaveLog(df, batch_id)
    /\ UNCHANGED <<df, fill_missing, quality_report, original_shape>>
    /\ UNCHANGED <<file_path, encodings_tried>>
    /\ UNCHANGED <<tableVars, batchVars, mergeVars, levelVars, filenameVars, analyzerVars>>

\* the largest number of rows of a table check_data_consistency is called on
MaxCheckRows == 2

Engineering == <<"E", "n", "g">>

Science == <<"S", "c", "i">>

CheckColumns == <<"FACULTY", "FACULTY_DESCR", "COURSE_CODE", "CRSE_ATTR", "CATALOG_NUMBER">>

\* rows of a cleaned table: one faculty code under one or two descriptions, a
\* course code that is well formed, malformed or missing, a course attribute
\* that is the sentinel or not, a catalog number that agrees with the code,
\* differs from it or is missing
CheckRows ==
    [FACULTY : {Str(<<"E">>)}, FACULTY_DESCR : {Str(Engineering), Str(Science)},
     COURSE_CODE : {Str(COMP9417), Str(<<"x">>), NaN},
     CRSE_ATTR : {Str(WILC), Str(<<"X">>)},
     CATALOG_NUMBER : {Num(9417), Num(1), NaN}]

CheckRowsWithoutCatalog ==
    [FACULTY : {Str(<<"E">>)}, FACULTY_DESCR : {Str(Engineering), Str(Science)},
     COURSE_CODE : {Str(COMP9417), Str(<<"x">>), NaN},
     CRSE_ATTR : {Str(WILC), Str(<<"X">>)}]

\* a caller holds a cleaned table and a new DataCleaner
cleaned_table ==
    /\ pc = "__init__"
    /\ \E k \in 0..MaxCheckRows :
          \/ \E rs \in [1..k -> CheckRows] :
                df' = [columns |-> CheckColumns, rows |-> rs]
          \/ \E rs \in [1..k -> CheckRowsWithoutCatalog] :
                df' = [columns |-> SubSeq(CheckColumns, 1, 4), rows |-> rs]
    /\ pc' = "cleaned table"
    /\ UNCHANGED <<fill_missing, cleaning_log, quality_report, original_shape,
                   cleaned_shape, report, file_path, encodings_tried>>
    /\ UNCHANGED <<tableVars, batchVars, mergeVars, levelVars, filenameVars, analyzerVars>>

\* the largest number of rows of a table convert_data_types is called on
MaxConvertRows == 2

ConvertColumns == <<"MASKED_ID", "CATALOG_NUMBER", "GENDER">>

\* rows as read from a file: two integer fields whose text is an integer, a
\* number with decimals or no number (the id may also be missing), and a gender
ConvertRows ==
    [MASKED_ID : {Str(<<"1">>), Str(<<"x">>), Str(<<"1", ".", "5">>), NaN},
     CATALOG_NUMBER : {Str(<<"9">>), Str(<<"2", ".", "5", "0">>), Str(<<"x">>)},
     GENDER : {Str(<<"M">>), NaN}]

\* a caller holds a table as read and a new DataCleaner
table_read ==
    /\ pc = "__init__"
    /\ \E k \in 0..MaxConvertRows :
          \E rs \in [1..k -> ConvertRows] : df' = [columns |-> ConvertColumns, rows |-> rs]
    /\ pc' = "table read"
    /\ UNCHANGED <<fill_missing, cleaning_log, quality_report, original_shape,
                   cleaned_shape, report, file_path, encodings_tried>>
    /\ UNCHANGED <<tableVars, batchVars, mergeVars, levelVars, filenameVars, analyzerVars>>

ConvertNext ==
    \/ table_read
    \/ convert_data_types

ConsistencyNext ==
    \/ cleaned_table
    \/ check_data_consistency

CleanerNext ==
    \/ read_data
    \/ read_data_unsupported
    \/ handle_missing_values
    \/ convert_data_types
    \/ clean_text_fields
    \/ fill_missing_values
    \/ standardize_gender
    \/ validate_categorical_variables
    \/ check_duplicates
    \/ check_data_consistency
    \/ save_cleaned_data

----------------------------------------------------------------------------
(* DataCleaner.clean_data as one call, and clean_wil_data *)

\* steps 2 to 8 of clean_data on the table read
Pipeline(d, fill) ==
    Deduplicated(IF fill
                 THEN MissingFilled(TextCleaned(TypesConverted(BlanksReplaced(d))))
                 ELSE TextCleaned(TypesConverted(BlanksReplaced(d))))

\* the table as step 5 receives it and as step 8 receives it
TextCleanedTable(d) == TextCleaned(TypesConverted(BlanksReplaced(d)))

ValidatedTable(d, fill) ==
    IF fill THEN MissingFilled(TextCleanedTable(d)) ELSE TextCleanedTable(d)

\* the entries steps 2 to 9 of clean_data append for the table d read
PipelineLog(d, fill) ==
    << MissingHandlingLog(d) >>
    \o ConversionLog(BlanksReplaced(d))
    \o << TextCleaningLog(TypesConverted(BlanksReplaced(d))) >>
    \o (IF fill THEN FillLog(TextCleanedTable(d)) ELSE <<>>)
    \o GenderLog(ValidatedTable(d, fill))
    \o << ValidationLog(ValidatedTable(d, fill)) >>
    \o DuplicateLog(ValidatedTable(d, fill))
    \o << ConsistencyLog(Deduplicated(ValidatedTable(d, fill))) >>

\* what steps 2 and 7 write into quality_report
PipelineQuality(quality, d, fill) ==
    Update(Update(quality, "missing_values_before" :> MissingStats(BlanksReplaced(d))),
           Distributions(ValidatedTable(d, fill)))

\* DataCleaner(): the fields of a new instance
DataCleaner == [cleaning_log |-> <<>>, quality_report |-> EmptyDict, original_shape |-> None]

\* a Python str where None may stand instead
Text(s) == [str |-> s]

\* the path of a file
PathOf(file) == file.name \o file.ext

\* read_data raised e: the error is logged on the instance, nothing is written
ReadFailure(self, e) ==
    [raised |-> TRUE, error |-> e,
     self |-> [self EXCEPT !.cleaning_log =
                  Append(@, log_action("Data Reading Error", "Failed to read file: " \o e))],
     written |-> EmptyDict]

\* step 10 on the cleaned table: the two files are written and the call
\* returns the table and their names, or raises what save_cleaned_data raises
SaveOutcome(self, cleaned, batch_id) ==
    IF SaveRaises(cleaned)
    THEN [raised |-> TRUE, error |-> "single positional indexer is out-of-bounds",
          self |-> self, written |-> EmptyDict]
    ELSE [raised |-> FALSE, cleaned_df |-> cleaned,
          cleaned_file |-> CleanedFileName(cleaned),
          report_file |-> ReportFileName(cleaned, batch_id),
          self |-> [self EXCEPT !.cleaning_log = @ \o SaveLog(cleaned, batch_id)],
          written |->
              (ReportFileName(cleaned, batch_id) :>
                  QualityReport(cleaned, self.original_shape, self.cleaning_log,
                                self.quality_report))
              @@ (CleanedFileName(cleaned) :> cleaned)]

\* self.clean_data(file_path, output_dir, fill_missing, batch_id): read_data
\* raises on an unsupported extension and on a file that cannot be opened;
\* the outcome carries the instance after the call and the files written
clean_data(self, file, fill, batch_id) ==
    IF file.ext \notin SupportedExtensions
    THEN ReadFailure(self, "Unsupported file format: " \o file.ext
                              \o ". Supported formats: .csv, .xlsx, .xls")
    ELSE IF ~file.exists
    THEN ReadFailure(self, "No such file or directory: " \o PathOf(file))
    ELSE SaveOutcome([cleaning_log |-> Append(self.cleaning_log, ReadingLog(file.table))
                                          \o PipelineLog(file.table, fill),
                      quality_report |-> PipelineQuality(self.quality_report, file.table, fill),
                      original_shape |-> Shape(file.table)],
                     Pipeline(file.table, fill), batch_id)

\* cleaner = DataCleaner() made once, before the loop over the files
cleaner_of_the_batch(previous) == IF previous = None THEN DataCleaner ELSE previous

\* cleaner = DataCleaner(): a new instance whatever the name was bound to
new_cleaner(previous) == DataCleaner

clean_wil_data(input_file, fill, batch_id) ==
    clean_data(new_cleaner(None), input_file, fill, batch_id)

----------------------------------------------------------------------------
(* clean_multiple_wil_data *)

\* the largest number of input files of a batch
MaxFiles == 2

\* the largest number of rows of a file of a batch
MaxBatchRows == 1

BatchRows ==
    [ACADEMIC_YEAR : {Num(2024)}, COURSE_CODE : {Str(COMP9417), Str(<<" ", " ">>)},
     MASKED_ID : {Str(<<"1">>)}, GENDER : {Str(<<"M">>), Str(<<" ">>)}]

EmptyTable == [columns |-> ColumnsWithoutTerm, rows |-> <<>>]

\* the names of the CSV files of a batch
BatchNames == {"wil", "wil_b"}

\* a file that does not exist, a text file, and the CSV files of at most
\* MaxBatchRows rows under either name (one table has a header and no rows)
BatchFiles ==
    {[name |-> "missing", ext |-> ".csv", exists |-> FALSE, table |-> EmptyTable],
     [name |-> "notes", ext |-> ".txt", exists |-> TRUE, table |-> EmptyTable]}
    \cup {[name |-> n, ext |-> ".csv", exists |-> TRUE,
           table |-> [columns |-> ColumnsWithoutTerm, rows |-> rs]] :
             n \in BatchNames, rs \in UNION {[1..k -> BatchRows] : k \in 0..MaxBatchRows}}

\* the result dict as the loop body initialises it
NewResult(input_file) ==
    [original_file |-> PathOf(input_file), status |-> "failed", cleaned_df |-> None,
     cleaned_file |-> None, report_file |-> None, error |-> None]

\* an except clause that lets the exception leave the call
except_reraise(result, e) == [raised |-> TRUE, result |-> result]

\* except Exception as e: result['error'] = str(e)
except_Exception(result, e) ==
    [raised |-> FALSE, result |-> [result EXCEPT !.error = Text(e)]]

\* the try block, given what clean_data did
TryBlock(result, outcome) ==
    IF outcome.raised THEN except_Exception(result, outcome.error)
    ELSE [raised |-> FALSE,
          result |-> [result EXCEPT !.status = "success",
                                    !.cleaned_df = outcome.cleaned_df,
                                    !.cleaned_file = Text(outcome.cleaned_file),
                                    !.report_file = Text(outcome.report_file)]]

\* file_batch_id = f"{batch_id}_{file_basename}"
file_batch_id(input_file, options) == options.batch_id \o "_" \o input_file.name

\* what the call of clean_data in the try block does for input_file, the name
\* cleaner being bound to previous before
CleanInLoop(previous, input_file, options) ==
    clean_data(new_cleaner(previous), input_file, options.fill_missing,
               file_batch_id(input_file, options))

\* one pass of the loop body for input_file
LoopBody(previous, input_file, options) ==
    TryBlock(NewResult(input_file), CleanInLoop(previous, input_file, options))

BatchInit ==
    /\ input_files = <<>>
    /\ batch_options = None
    /\ results = <<>>
    /\ batch_pc = "idle"
    /\ cleaner = None
    /\ output_dir = EmptyDict

\* the call: batch_id is given or made from the clock, results = []
clean_multiple_wil_data ==
    /\ batch_pc = "idle"
    /\ \E n \in 0..MaxFiles :
          \E files \in [1..n -> BatchFiles] : input_files' = files
    /\ \E fill \in BOOLEAN, now \in Timestamps :
          batch_options' = [fill_missing |-> fill, batch_id |-> "batch_" \o now]
    /\ results' = <<>>
    /\ batch_pc' = "loop"
    /\ UNCHANGED <<cleaner, output_dir>>
    /\ UNCHANGED <<tableVars, cleanerVars, mergeVars, levelVars, filenameVars, analyzerVars>>

\* one iteration of the for loop
clean_next_file ==
    /\ batch_pc = "loop"
    /\ Len(results) < Len(input_files)
    /\ IF LoopBody(cleaner, input_files[Len(results) + 1], batch_options).raised
       THEN batch_pc' = "raised" /\ UNCHANGED results
       ELSE /\ results' = Append(results,
                  LoopBody(cleaner, input_files[Len(results) + 1], batch_options).result)
            /\ UNCHANGED batch_pc
    /\ cleaner' = CleanInLoop(cleaner, input_files[Len(results) + 1], batch_options).self
    /\ output_dir' =
          Update(output_dir,
                 CleanInLoop(cleaner, input_files[Len(results) + 1], batch_options).written)
    /\ UNCHANGED <<input_files, batch_options>>
    /\ UNCHANGED <<tableVars, cleanerVars, mergeVars, levelVars, filenameVars, analyzerVars>>

\* return results
return_results ==
    /\ batch_pc = "loop"
    /\ Len(results) = Len(input_files)
    /\ batch_pc' = "returned"
    /\ UNCHANGED <<input_files, batch_options, results, cleaner, output_dir>>
    /\ UNCHANGED <<tableVars, cleanerVars, mergeVars, levelVars, filenameVars, analyzerVars>>

BatchNext ==
    \/ clean_multiple_wil_data
    \/ clean_next_file
    \/ return_results

----------------------------------------------------------------------------
(* analyze_multi_file: validation, cleaning and merge of the uploaded files *)

\* the largest number of file_ids of a request
MaxMergeFiles == 2

\* the largest number of rows of an uploaded file
MaxMergeRows == 2

MergeColumns == <<"ACADEMIC_YEAR", "MASKED_ID", "GENDER">>

MergeColumnsWithoutId == <<"ACADEMIC_YEAR", "GENDER">>

MergeRows ==
    [ACADEMIC_YEAR : {Num(2024), Num(2025)}, MASKED_ID : {Str(<<"1">>), Str(<<"2">>)},
     GENDER : RawGenders]

MergeRowsWithoutId == [ACADEMIC_YEAR : {Num(2024), Num(2025)}, GENDER : RawGenders]

\* a structural validation that finds nothing wrong with any file
validate_file_structure_accepting(file) ==
    [file_info |-> [rows |-> Len(file.table.rows), columns |-> Len(file.table.columns)],
     error |-> None]

\* validate_file_structure: a file without rows is rejected ("File is empty")
validate_file_structure(file) ==
    IF file.table.rows = <<>> THEN [file_info |-> None, error |-> Text("File is empty")]
    ELSE [file_info |-> [rows |-> Len(file.table.rows), columns |-> Len(file.table.columns)],
          error |-> None]

RECURSIVE UnionColumns(_)
\* the columns of the concatenation: every column, in order of first appearance
UnionColumns(dfs) ==
    IF dfs = <<>> THEN <<>>
    ELSE LET before == UnionColumns(SubSeq(dfs, 1, Len(dfs) - 1))
             IsNew(column) == column \notin SeqToSet(before)
         IN  before \o SelectSeq(dfs[Len(dfs)].columns, IsNew)

\* a row of one table in the concatenation: the columns it lacks are missing
PadRow(row, columns) ==
    [c \in SeqToSet(columns) |-> IF c \in DOMAIN row THEN row[c] ELSE NaN]

PadRows(d, columns) == [i \in DOMAIN d.rows |-> PadRow(d.rows[i], columns)]

\* pd.concat(all_dataframes, ignore_index=True)
concat(dfs) ==
    [columns |-> UnionColumns(dfs),
     rows    |-> FlattenSeq([f \in DOMAIN dfs |-> PadRows(dfs[f], UnionColumns(dfs))])]

\* a merge key of the student alone
merge_subset_id_only == {"MASKED_ID"}

\* subset=['MASKED_ID', 'ACADEMIC_YEAR']
merge_subset == {"MASKED_ID", "ACADEMIC_YEAR"}

\* the duplicates are dropped when the merged table has both key columns
MergeDeduplicated(merged) ==
    IF merge_subset \subseteq SeqToSet(merged.columns)
    THEN [merged EXCEPT !.rows = drop_duplicates(merged.rows, merge_subset)]
    ELSE merged

MergeInit ==
    /\ merge_pc = "idle"
    /\ file_ids = <<>>
    /\ all_dataframes = <<>>
    /\ merged_df = None
    /\ response = None

\* the request arrives; fewer than two file_ids are refused
analyze_multi_file ==
    /\ merge_pc = "idle"
    /\ \E n \in 0..MaxMergeFiles :
          /\ \E files \in [1..n ->
                  {[name |-> "gone", ext |-> ".csv", exists |-> FALSE, table |-> EmptyTable]}
                  \cup {[name |-> "wil", ext |-> ".csv", exists |-> TRUE,
                         table |-> [columns |-> MergeColumns, rows |-> rs]] :
                           rs \in UNION {[1..k -> MergeRows] : k \in 0..MaxMergeRows}}
                  \cup {[name |-> "wil", ext |-> ".csv", exists |-> TRUE,
                         table |-> [columns |-> MergeColumnsWithoutId, rows |-> rs]] :
                           rs \in UNION {[1..k -> MergeRowsWithoutId] : k \in 1..MaxMergeRows}}] :
                file_ids' = files
          /\ IF n < 2
             THEN /\ response' =
                        [status |-> "400",
                         error |-> "At least 2 file_ids are required for multi-file analysis"]
                  /\ merge_pc' = "responded"
             ELSE /\ merge_pc' = "loop"
                  /\ UNCHANGED response
    /\ UNCHANGED <<all_dataframes, merged_df>>
    /\ UNCHANGED <<tableVars, cleanerVars, batchVars, levelVars, filenameVars, analyzerVars>>

\* what one iteration of the file loop does with a file that exists and is
\* valid: clean_wil_data with fill_missing=True, its table collected or its
\* exception answered
CleanForMerge(outcome) ==
    IF outcome.raised
    THEN /\ response' = [status |-> "500", error |-> "Data cleaning failed"]
         /\ merge_pc' = "responded"
         /\ UNCHANGED all_dataframes
    ELSE /\ all_dataframes' = Append(all_dataframes, outcome.cleaned_df)
         /\ UNCHANGED <<response, merge_pc>>

\* one iteration of the loop over file_ids
process_file ==
    /\ merge_pc = "loop"
    /\ Len(all_dataframes) < Len(file_ids)
    /\ LET file == file_ids[Len(all_dataframes) + 1]
       IN  IF ~file.exists
           THEN /\ response' = [status |-> "404", error |-> "File not found"]
                /\ merge_pc' = "responded"
                /\ UNCHANGED all_dataframes
           ELSE IF validate_file_structure(file).error # None
           THEN /\ response' = [status |-> "400", error |-> "Invalid file content"]
                /\ merge_pc' = "responded"
                /\ UNCHANGED all_dataframes
           ELSE \E analysis_id \in Timestamps :
                   CleanForMerge(clean_wil_data(file, TRUE, analysis_id))
    /\ UNCHANGED <<file_ids, merged_df>>
    /\ UNCHANGED <<tableVars, cleanerVars, batchVars, levelVars, filenameVars, analyzerVars>>

\* every file is cleaned: the tables are concatenated and the duplicates of
\* the key dropped (the charts and the report that follow are not modelled)
merge_dataframes ==
    /\ merge_pc = "loop"
    /\ Len(all_dataframes) = Len(file_ids)
    /\ merged_df' = MergeDeduplicated(concat(all_dataframes))
    /\ merge_pc' = "merged"
    /\ UNCHANGED <<file_ids, all_dataframes, response>>
    /\ UNCHANGED <<tableVars, cleanerVars, batchVars, levelVars, filenameVars, analyzerVars>>

MergeNext ==
    \/ analyze_multi_file
    \/ process_file
    \/ merge_dataframes

----------------------------------------------------------------------------
(* analyze_multi_file on files with a faculty column: the statistics of the
   merged table *)

\* the largest number of rows of a file with a faculty column
MaxFacultyRows == 2

FacultyColumns == <<"ACADEMIC_YEAR", "MASKED_ID", "FACULTY_DESCR">>

FacultyRows ==
    [ACADEMIC_YEAR : {Num(2024), Num(2025)}, MASKED_ID : {Str(<<"1">>), Str(<<"2">>)},
     FACULTY_DESCR : {Str(Engineering), Str(Science)}]

\* the uploaded CSV files with a faculty column, of 1..MaxFacultyRows rows
FacultyFiles ==
    {[name |-> "wil", ext |-> ".csv", exists |-> TRUE,
      table |-> [columns |-> FacultyColumns, rows |-> rs]] :
        rs \in UNION {[1..k -> FacultyRows] : k \in 1..MaxFacultyRows}}

\* a cell of the merged CSV as pd.read_csv gives it to the analyzer: a number,
\* a text of digits as its integer, any other text as it is
read_csv_cell(cell) ==
    IF cell.k = "num" THEN cell.v
    ELSE IF cell.k = "str" /\ AllDigits(cell.s) THEN ParseInt(cell.s)
    ELSE IF cell.k = "str" THEN cell.s
    ELSE cell

\* the analyzer's self.data for a merged table saved by to_csv
AnalyzerData(d) ==
    [columns |-> SeqToSet(d.columns),
     rows    |-> [i \in DOMAIN d.rows |->
                    [c \in DOMAIN d.rows[i] |-> read_csv_cell(d.rows[i][c])]]]

\* the loop over file_ids run to its end on two files that exist, pass
\* validate_file_structure and are cleaned without an exception
collect_cleaned_files ==
    /\ merge_pc = "idle"
    /\ \E files \in [1..2 -> FacultyFiles] : \E analysis_id \in Timestamps :
          /\ \A f \in DOMAIN files :
                /\ validate_file_structure(files[f]).error = None
                /\ ~clean_wil_data(files[f], TRUE, analysis_id).raised
          /\ file_ids' = files
          /\ all_dataframes' =
                [f \in DOMAIN files |->
                    clean_wil_data(files[f], TRUE, analysis_id).cleaned_df]
    /\ merge_pc' = "loop"
    /\ UNCHANGED <<merged_df, response>>
    /\ UNCHANGED <<tableVars, cleanerVars, batchVars, levelVars, filenameVars, analyzerVars>>

StatisticsNext ==
    \/ collect_cleaned_files
    \/ merge_dataframes

----------------------------------------------------------------------------
(* determine_academic_level applied to one course code *)

\* the numbers after the subject prefix: four digits of 0, 1 and 9
CodeNumbers == {<<a, b, c, d>> : a \in {"0", "1", "9"}, b \in {"0", "1", "9"}, c \in {"0", "1", "9"}, d \in {"0", "1", "9"}}

CodePrefixes ==
    { <<>>, <<"C","O","M","P">>, <<"C","D","E","V">>, <<" ","c","d","e","v">>,
      <<"R","E","S">>, <<"P","H","D">>, <<"M","A","S","T">>, <<"B","A","C","H">>,
      <<"C","D","E","V","R","E","S">>, <<"N","O","N","-","A","W","A","R","D">>,
      <<"N","O","N","-","A","W","A","R","D"," ","C","D","E","V">> }

\* the course codes classified: a prefix and a number, or the prefix alone
\* (the missing code is classified beside them)
CourseCodeInputs ==
    {p \o n : p \in CodePrefixes, n \in CodeNumbers} \cup CodePrefixes

LevelInit ==
    /\ code_cell = NaN
    /\ level_cell = ""

\* data_with_level['COURSE_CODE'].apply(determine_academic_level), one cell
apply_determine_academic_level ==
    /\ level_cell = ""
    /\ \/ \E code \in CourseCodeInputs :
             /\ code_cell' = code
             /\ level_cell' = determine_academic_level(code)
       \/ /\ code_cell' = NaN
          /\ level_cell' = determine_academic_level(NaN)
    /\ UNCHANGED <<tableVars, cleanerVars, batchVars, mergeVars, filenameVars, analyzerVars>>

LevelNext == apply_determine_academic_level

----------------------------------------------------------------------------
(* validate_filename applied to one filename *)

\* len(filename) > 255
MaxFilenameLength == 255

dangerous_chars ==
    << <<".", ".">>, <<"/">>, <<"\\">>, <<"<">>, <<">">>, <<":">>, <<"\"">>, <<"|">>,
       <<"?">>, <<"*">> >>

valid_extensions ==
    << <<".","c","s","v">>, <<".","x","l","s","x">>, <<".","x","l","s">> >>

LowerChar(c) ==
    IF \E i \in DOMAIN UpperLetters : UpperLetters[i] = c
    THEN LowerLetters[CHOOSE i \in DOMAIN UpperLetters : UpperLetters[i] = c]
    ELSE c

\* a lower() that leaves the capitals as they are
lower_keeping_case(s) == s

\* str.lower()
lower(s) == [i \in DOMAIN s |-> LowerChar(s[i])]

\* s.endswith(p)
endswith(s, p) == Len(p) <= Len(s) /\ SubSeq(s, Len(s) - Len(p) + 1, Len(s)) = p

RECURSIVE JoinChars(_)
\* the characters as one string, for the f-string of the message
JoinChars(chars) ==
    IF chars = <<>> THEN "" ELSE Head(chars) \o JoinChars(Tail(chars))

\* the (is_valid, error_message) pair
validate_filename(name) ==
    LET found == {k \in DOMAIN dangerous_chars : Contains(name, dangerous_chars[k])}
    IN  IF found # {}
        THEN [is_valid |-> FALSE,
              error |-> Text("Filename contains invalid character: "
                              \o JoinChars(dangerous_chars[CHOOSE k \in found :
                                                              \A j \in found : k <= j]))]
        ELSE IF Len(name) > MaxFilenameLength
        THEN [is_valid |-> FALSE, error |-> Text("Filename is too long (max 255 characters)")]
        ELSE IF Len(name) = 0
        THEN [is_valid |-> FALSE, error |-> Text("Filename cannot be empty")]
        ELSE IF ~\E k \in DOMAIN valid_extensions : endswith(lower(name), valid_extensions[k])
        THEN [is_valid |-> FALSE,
              error |-> Text("Invalid file extension. Allowed: .csv, .xlsx, .xls")]
        ELSE [is_valid |-> TRUE, error |-> None]

\* stems of at most two characters, with and without forbidden ones
StemChars == {"a", "T", ".", "/", "*", ":"}

FilenameStems ==
    {<<>>} \cup {<<a>> : a \in StemChars} \cup {<<a, b>> : a \in StemChars, b \in StemChars}

FilenameEndings ==
    { <<>>, <<".","c","s","v">>, <<".","C","S","V">>, <<".","x","l","s","x">>,
      <<".","X","l","s">>, <<".","t","x","t">>, <<".","c","s","v",".","t","x","t">>,
      <<"c","s","v">> }

\* a run of n letters
LongStem(n) == [i \in 1..n |-> "a"]

\* the filenames validated: the short ones, and the ones whose length is at
\* and around MaxFilenameLength
FilenameInputs ==
    {stem \o ending : stem \in FilenameStems, ending \in FilenameEndings}
    \cup {LongStem(n) \o stem \o ending :
            n \in (MaxFilenameLength - 6)..(MaxFilenameLength - 3),
            stem \in {<<>>, <<"/">>, <<"a", "a">>},
            ending \in {<<".","c","s","v">>, <<".","C","S","V">>, <<".","t","x","t">>}}

FilenameInit ==
    /\ filename = <<>>
    /\ filename_check = None

\* is_valid_filename, filename_error = validate_filename(original_filename)
call_validate_filename ==
    /\ filename_check = None
    /\ \E name \in FilenameInputs :
          /\ filename' = name
          /\ filename_check' = validate_filename(name)
    /\ UNCHANGED <<tableVars, cleanerVars, batchVars, mergeVars, levelVars, analyzerVars>>

FilenameNext == call_validate_filename

----------------------------------------------------------------------------
(* WILReportAnalyzer: construction and load_data on one data path *)

\* the largest number of rows of the file at data_path
MaxLoadRows == 1

LoadExtensions == {".csv", ".xlsx", ".txt"}

\* the file data_path names: it exists or not, and holds a table
DataFiles ==
    [name : {"wil"}, ext : LoadExtensions, exists : BOOLEAN,
     table : {[columns |-> AllColumns \ {"TERM"}, rows |-> rs] :
                 rs \in UNION {[1..k -> RowsWithoutTerm] : k \in 0..MaxLoadRows}}]

\* an exception of the given class carrying a message
Raise(class, message) == [class |-> class, message |-> message]

\* __init__(data_path, output_dir): os.path.exists is tested first, then the
\* output directory is made
WILReportAnalyzer_init(file, dir_ok) ==
    IF ~file.exists
    THEN [raised |-> Raise("ValueError", "Data file not found: " \o PathOf(file)),
          self |-> None]
    ELSE IF ~dir_ok
    THEN [raised |-> Raise("ValueError", "Cannot create output directory"), self |-> None]
    ELSE [raised |-> None, self |-> [data_path |-> PathOf(file), data |-> None]]

\* the body of load_data's try block: what the reader raises, or the table
ReadForAnalysis(file) ==
    IF file.ext \notin SupportedExtensions
    THEN [raised |-> Raise("ValueError", "Unsupported file format: " \o file.ext
                              \o ". Supported formats: .csv, .xlsx, .xls"),
          table |-> None]
    ELSE IF ~file.exists
    THEN [raised |-> Raise("FileNotFoundError", "No such file or directory: " \o PathOf(file)),
          table |-> None]
    ELSE [raised |-> None, table |-> file.table]

\* except Exception as e: raise Exception(f"Failed to load data from ...")
WrapLoadError(file, e) ==
    Raise("Exception", "Failed to load data from " \o PathOf(file) \o ": " \o e.message)

AnalyzerInit ==
    /\ data_file = None
    /\ analyzer = None
    /\ analyzer_raised = None
    /\ analyzer_pc = "start"

\* analyzer = WILReportAnalyzer(data_path, output_dir)
construct_analyzer ==
    /\ analyzer_pc = "start"
    /\ \E file \in DataFiles, dir_ok \in BOOLEAN :
          /\ data_file' = file
          /\ analyzer' = WILReportAnalyzer_init(file, dir_ok).self
          /\ analyzer_raised' = WILReportAnalyzer_init(file, dir_ok).raised
    /\ analyzer_pc' = "__init__"
    /\ UNCHANGED <<tableVars, cleanerVars, batchVars, mergeVars, levelVars, filenameVars>>

\* the file is deleted after the analyzer was constructed on it
unlink_data_file ==
    /\ analyzer_pc = "__init__"
    /\ analyzer # None
    /\ data_file.exists
    /\ data_file' = [data_file EXCEPT !.exists = FALSE]
    /\ UNCHANGED <<analyzer, analyzer_raised, analyzer_pc>>
    /\ UNCHANGED <<tableVars, cleanerVars, batchVars, mergeVars, levelVars, filenameVars>>

\* analyzer.load_data()
analyzer_load_data ==
    /\ analyzer_pc = "__init__"
    /\ analyzer # None
    /\ IF ReadForAnalysis(data_file).raised # None
       THEN /\ analyzer_raised' = WrapLoadError(data_file, ReadForAnalysis(data_file).raised)
            /\ UNCHANGED analyzer
       ELSE /\ analyzer' = [analyzer EXCEPT !.data = ReadForAnalysis(data_file).table]
            /\ UNCHANGED analyzer_raised
    /\ analyzer_pc' = "load_data"
    /\ UNCHANGED data_file
    /\ UNCHANGED <<tableVars, cleanerVars, batchVars, mergeVars, levelVars, filenameVars>>

AnalyzerNext ==
    \/ construct_analyzer
    \/ unlink_data_file
    \/ analyzer_load_data

----------------------------------------------------------------------------
(* DataCleaner.read_data, attempt by attempt *)
(* A delimited file is a header line NAME and one cell per line, each     *)
(* cell a sequence of bytes; a decoder turns the bytes of a cell into     *)
(* characters or fails with UnicodeDecodeError.                           *)

\* the largest number of lines of a file that is read
MaxReadRows == 2

\* what a decoder gives: the characters, or UnicodeDecodeError
Decoded(chars) == [error |-> FALSE, chars |-> chars]

UnicodeDecodeError == [error |-> TRUE, chars |-> <<>>]

\* the decoding of a first character followed by the decoding of the rest
Then(char, rest) == IF rest.error THEN rest ELSE Decoded(<<char>> \o rest.chars)

\* chr(n): the character of code point n
Chr(n) == IF n = 65 THEN "A" ELSE "chr(" \o ToString(n) \o ")"

RECURSIVE decode_utf8(_)
\* bytes.decode('utf-8'), for bytes below 224: a byte below 128 is a
\* character, a lead byte 194..223 takes one continuation byte 128..191
decode_utf8(bytes) ==
    IF bytes = <<>> THEN Decoded(<<>>)
    ELSE IF bytes[1] < 128
    THEN Then(Chr(bytes[1]), decode_utf8(Tail(bytes)))
    ELSE IF /\ bytes[1] >= 194 /\ bytes[1] <= 223 /\ Len(bytes) >= 2
            /\ bytes[2] >= 128 /\ bytes[2] <= 191
    THEN Then(Chr((bytes[1] - 192) * 64 + (bytes[2] - 128)), decode_utf8(Tail(Tail(bytes))))
    ELSE UnicodeDecodeError

RECURSIVE decode_gbk(_)
\* bytes.decode('gbk'): a byte below 128 is a character, a lead byte 129..254
\* takes one trail byte 64..254 other than 127
decode_gbk(bytes) ==
    IF bytes = <<>> THEN Decoded(<<>>)
    ELSE IF bytes[1] < 128
    THEN Then(Chr(bytes[1]), decode_gbk(Tail(bytes)))
    ELSE IF /\ bytes[1] >= 129 /\ bytes[1] <= 254 /\ Len(bytes) >= 2
            /\ bytes[2] >= 64 /\ bytes[2] <= 254 /\ bytes[2] # 127
    THEN Then("gbk(" \o ToString(bytes[1]) \o "," \o ToString(bytes[2]) \o ")",
              decode_gbk(Tail(Tail(bytes))))
    ELSE UnicodeDecodeError

\* bytes.decode('latin1'): every byte is a character
decode_latin1(bytes) == Decoded([i \in DOMAIN bytes |-> Chr(bytes[i])])

decode(bytes, encoding) ==
    IF encoding = "utf-8" THEN decode_utf8(bytes)
    ELSE IF encoding = "gbk" THEN decode_gbk(bytes)
    ELSE decode_latin1(bytes)

\* a reader whose first attempt is the permissive encoding
default_encoding_latin1 == "latin1"

\* the encoding parameter as clean_data leaves it
default_encoding == "utf-8"

\* os.path.splitext(file_path)[1].lower()
file_extension(file) ==
    IF file.ext = ".CSV" THEN ".csv"
    ELSE IF file.ext = ".XLSX" THEN ".xlsx"
    ELSE file.ext

\* pd.read_csv(file_path, encoding=encoding): the table, or what it raises
read_csv(file, encoding) ==
    IF \E i \in DOMAIN file.cells : decode(file.cells[i], encoding).error
    THEN [raised |-> "UnicodeDecodeError", table |-> None]
    ELSE IF ~file.parses
    THEN [raised |-> "ParserError", table |-> None]
    ELSE [raised |-> "",
          table |-> [columns |-> <<"NAME">>,
                     rows |-> [i \in DOMAIN file.cells |->
                                  [NAME |-> Str(decode(file.cells[i], encoding).chars)]]]]

\* pd.read_excel(file_path, engine=...): the bytes of the cells are text of
\* the workbook, which the engine reads or rejects
read_excel(file) ==
    IF ~file.parses
    THEN [raised |-> "BadZipFile", table |-> None]
    ELSE [raised |-> "",
          table |-> [columns |-> <<"NAME">>,
                     rows |-> [i \in DOMAIN file.cells |->
                                  [NAME |-> Str(decode_latin1(file.cells[i]).chars)]]]]

\* A, e-acute in UTF-8, a lone byte 169, and a pair that only GBK decodes
CellBytes == {<<65>>, <<195, 169>>, <<169>>, <<195, 65>>}

ReadExtensions == {".csv", ".CSV", ".xlsx", ".txt", ""}

ReadFiles ==
    [ext : ReadExtensions, parses : BOOLEAN,
     cells : UNION {[1..k -> CellBytes] : k \in 0..MaxReadRows}]

\* an attempt succeeded: the entry is logged, then the shape is recorded and
\* the table returned
ReadReturns(table, details) ==
    /\ df' = table
    /\ cleaning_log' = Append(cleaning_log,
          log_action("Data Reading", details \o ", shape: " \o ToString(Shape(table))))
    /\ original_shape' = Shape(table)
    /\ pc' = "read_data"

\* except Exception as e: the error is logged and raised again
ReadRaises(e) ==
    /\ cleaning_log' = Append(cleaning_log,
          log_action("Data Reading Error", "Failed to read file: " \o e))
    /\ pc' = "raised"
    /\ UNCHANGED <<df, original_shape>>

\* one pd.read_csv attempt and what follows it; a UnicodeDecodeError of an
\* attempt that has an except clause for it leads to the next attempt
AttemptCsv(encoding, details, caught) ==
    /\ encodings_tried' = Append(encodings_tried, encoding)
    /\ IF read_csv(file_path, encoding).raised = ""
       THEN ReadReturns(read_csv(file_path, encoding).table, details)
       ELSE IF caught /\ read_csv(file_path, encoding).raised = "UnicodeDecodeError"
       THEN pc' = "except UnicodeDecodeError" /\ UNCHANGED <<df, cleaning_log, original_shape>>
       ELSE ReadRaises(read_csv(file_path, encoding).raised)
    /\ UNCHANGED <<file_path, fill_missing, quality_report, cleaned_shape, report>>
    /\ UNCHANGED <<tableVars, batchVars, mergeVars, levelVars, filenameVars, analyzerVars>>

ReaderInit ==
    /\ file_path = None
    /\ encodings_tried = <<>>

\* self.read_data(file_path), up to the test of the extension
call_read_data ==
    /\ pc = "__init__"
    /\ \E file \in ReadFiles : file_path' = file
    /\ pc' = "try"
    /\ UNCHANGED <<encodings_tried, df, fill_missing, cleaning_log, quality_report,
                   original_shape, cleaned_shape, report>>
    /\ UNCHANGED <<tableVars, batchVars, mergeVars, levelVars, filenameVars, analyzerVars>>

try_read_excel ==
    /\ pc = "try"
    /\ file_extension(file_path) \in {".xlsx", ".xls"}
    /\ IF read_excel(file_path).raised = ""
       THEN ReadReturns(read_excel(file_path).table, "Successfully read Excel file")
       ELSE ReadRaises(read_excel(file_path).raised)
    /\ UNCHANGED <<file_path, encodings_tried, fill_missing, quality_report,
                   cleaned_shape, report>>
    /\ UNCHANGED <<tableVars, batchVars, mergeVars, levelVars, filenameVars, analyzerVars>>

try_read_csv ==
    /\ pc = "try"
    /\ file_extension(file_path) = ".csv"
    /\ AttemptCsv(default_encoding, "Successfully read CSV file", TRUE)

try_read_csv_gbk ==
    /\ pc = "except UnicodeDecodeError"
    /\ Len(encodings_tried) = 1
    /\ AttemptCsv("gbk", "Read CSV file using GBK encoding", TRUE)

try_read_csv_latin1 ==
    /\ pc = "except UnicodeDecodeError"
    /\ Len(encodings_tried) = 2
    /\ AttemptCsv("latin1", "Read CSV file using Latin1 encoding", FALSE)

raise_unsupported_format ==
    /\ pc = "try"
    /\ file_extension(file_path) \notin {".xlsx", ".xls", ".csv"}
    /\ ReadRaises("Unsupported file format: " \o file_extension(file_path)
                     \o ". Supported formats: .csv, .xlsx, .xls")
    /\ UNCHANGED <<file_path, encodings_tried, fill_missing, quality_report,
                   cleaned_shape, report>>
    /\ UNCHANGED <<tableVars, batchVars, mergeVars, levelVars, filenameVars, analyzerVars>>

ReaderNext ==
    \/ call_read_data
    \/ try_read_excel
    \/ try_read_csv
    \/ try_read_csv_gbk
    \/ try_read_csv_latin1
    \/ raise_unsupported_format

----------------------------------------------------------------------------
(* The specifications: every part starts as constructed; each specification *)
(* runs one part and leaves the others as they are                          *)

Init ==
    /\ TablesInit /\ CleanerInit /\ BatchInit /\ MergeInit
    /\ LevelInit /\ FilenameInit /\ AnalyzerInit /\ ReaderInit

Spec == Init /\ [][TablesNext]_vars

SpecTerm == Init /\ [][TermNext]_vars

SpecClean == Init /\ [][CleanerNext]_vars

SpecRead == Init /\ [][ReaderNext]_vars

SpecConsistency == Init /\ [][ConsistencyNext]_vars

SpecConvert == Init /\ [][ConvertNext]_vars

SpecLevel == Init /\ [][LevelNext]_vars

SpecFilename == Init /\ [][FilenameNext]_vars

SpecBatch == Init /\ [][BatchNext]_vars

SpecMerge == Init /\ [][MergeNext]_vars

SpecStatistics == Init /\ [][StatisticsNext]_vars

SpecAnalyzer == Init /\ [][AnalyzerNext]_vars

----------------------------------------------------------------------------
(* Properties of the comparison tables *)

\* the table of the given kind that the last call returned ({} if none)
TableNow(call, key) ==
    IF lastCall = call THEN lastResult
    ELSE IF lastCall = "generate_all_analysis_tables" /\ key \in DOMAIN lastResult
         THEN lastResult[key]
    ELSE EmptyDict

EnrollmentNow ==
    TableNow("generate_wil_enrollment_comparison_table", "wil_enrollment_comparison")

DemographicsNow ==
    TableNow("generate_distinct_student_count_table", "distinct_student_count")

TableNames == {"wil_enrollment_comparison", "term_breakdown", "distinct_student_count"}

Generators == {"generate_wil_enrollment_comparison_table",
               "generate_term_breakdown_table",
               "generate_distinct_student_count_table"}

Abs(x) == IF x < 0 THEN -x ELSE x

MaxOf(S) == CHOOSE x \in S : \A y \in S : y <= x

DataYears == {data.rows[i].ACADEMIC_YEAR : i \in DOMAIN data.rows}

\* the two compared years, when the table has two distinct years
LaterYear == MaxOf(DataYears)
EarlierYear == MaxOf(DataYears \ {LaterYear})

\* the distinct student ids with a record in faculty f and year y
DataStudents(f, y) ==
    {data.rows[i].MASKED_ID :
        i \in {j \in DOMAIN data.rows :
                 data.rows[j].FACULTY_DESCR = f /\ data.rows[j].ACADEMIC_YEAR = y}}

\* the distinct student ids with a record in year y
DataStudentsOfYear(y) ==
    {data.rows[i].MASKED_ID : i \in {j \in DOMAIN data.rows : data.rows[j].ACADEMIC_YEAR = y}}

RECURSIVE SumOver(_, _, _)
\* the sum of column key over the rows with an index in S
SumOver(S, rows, key) ==
    IF S = {} THEN 0
    ELSE LET i == CHOOSE x \in S : TRUE
         IN  rows[i][key] + SumOver(S \ {i}, rows, key)

\* t tenths is a nearest one-decimal value of (c2 - c1) / c1 * 100
NearestTenth(t, c1, c2) == 2 * Abs(1000 * Abs(c2 - c1) - t * c1) <= c1

OneDecimalPct(t, negative) ==
    (IF negative THEN "-" ELSE "") \o ToString(t \div 10) \o "." \o ToString(t % 10) \o "%"

SentinelLawHolds(pct, c1, c2) ==
    IF c1 = 0 THEN pct = (IF c2 > 0 THEN "New" ELSE "N/A")
    ELSE \E t \in {(1000 * Abs(c2 - c1)) \div c1, (1000 * Abs(c2 - c1)) \div c1 + 1} :
            NearestTenth(t, c1, c2) /\ pct = OneDecimalPct(t, c2 < c1)

RowsObeyLaw(t) ==
    Truthy(t) =>
        \A i \in DOMAIN t.rows :
            SentinelLawHolds(t.rows[i]["% Change"],
                             t.rows[i][t.summary.year_1], t.rows[i][t.summary.year_2])

\* C1: every row of the enrollment and demographics tables carries, as its
\* '% Change', "New" when the year-1 count is 0 and the year-2 count is
\* positive, "N/A" when both are 0, and otherwise the one-decimal percentage
\* of (c2 - c1) / c1 * 100 followed by '%'.
C1_SentinelLaw == RowsObeyLaw(EnrollmentNow) /\ RowsObeyLaw(DemographicsNow)

\* a demographics table with a "New" row, an "N/A" row and a percentage row
C1_Witness ==
    /\ lastCall = "generate_distinct_student_count_table"
    /\ Truthy(lastResult)
    /\ \E i, j, k \in DOMAIN lastResult.rows :
          /\ lastResult.rows[i]["% Change"] = "New"
          /\ lastResult.rows[j]["% Change"] = "N/A"
          /\ lastResult.rows[k]["% Change"] = "-100.0%"

\* C2: with at least two distinct years, the enrollment table has one row for
\* each faculty with a record in one of the two largest years and for no other,
\* holding the faculty's distinct student counts of the two years, in ascending
\* faculty-name order, followed by one Grand Total row holding the column sums.
C2_EnrollmentTable ==
    (/\ data # None
     /\ lastCall \in {"generate_wil_enrollment_comparison_table",
                      "generate_all_analysis_tables"}
     /\ Cardinality(DataYears) >= 2)
    => LET t    == EnrollmentNow
           k1   == ToString(EarlierYear)
           k2   == ToString(LaterYear)
           facs == {data.rows[i].FACULTY_DESCR :
                       i \in {j \in DOMAIN data.rows :
                                data.rows[j].ACADEMIC_YEAR \in {EarlierYear, LaterYear}}}
       IN  /\ Truthy(t)
           /\ Len(t.rows) = Cardinality(facs) + 1
           /\ \A i \in 1..(Len(t.rows) - 1) :
                 /\ t.rows[i]["Faculty"] \in facs
                 /\ t.rows[i][k1] = Cardinality(DataStudents(t.rows[i]["Faculty"], EarlierYear))
                 /\ t.rows[i][k2] = Cardinality(DataStudents(t.rows[i]["Faculty"], LaterYear))
                 /\ \A j \in 1..(i - 1) :
                       StrRank(t.rows[j]["Faculty"]) < StrRank(t.rows[i]["Faculty"])
           /\ t.rows[Len(t.rows)]["Faculty"] = "Grand Total"
           /\ t.rows[Len(t.rows)][k1] = SumOver(1..(Len(t.rows) - 1), t.rows, k1)
           /\ t.rows[Len(t.rows)][k2] = SumOver(1..(Len(t.rows) - 1), t.rows, k2)

\* three years and two faculties in the data, one faculty only in the oldest
\* year: the table has the other faculty's row and the Grand Total
C2_Witness ==
    /\ lastCall = "generate_wil_enrollment_comparison_table"
    /\ Cardinality(DataYears) = 3
    /\ Cardinality({data.rows[i].FACULTY_DESCR : i \in DOMAIN data.rows}) = 2
    /\ Truthy(lastResult)
    /\ Len(lastResult.rows) = 2

\* C3: with fewer than two distinct years each generator returns the empty
\* mapping, and generate_all_analysis_tables returns a mapping with none of
\* the three table names.
C3_InsufficientYears ==
    (data # None /\ Cardinality(DataYears) < 2)
    => /\ lastCall \in Generators => DOMAIN lastResult = {}
       /\ lastCall = "generate_all_analysis_tables"
             => DOMAIN lastResult \cap TableNames = {}

\* generate_all_analysis_tables called on two rows of one year
C3_Witness ==
    /\ data # None
    /\ Len(data.rows) >= 2
    /\ Cardinality(DataYears) = 1
    /\ lastCall = "generate_all_analysis_tables"
    /\ DOMAIN lastResult = {}

DemoLabel(r) == r["Distinct Count of WIL Students"]

\* the index of the row that ends the block of the header row h
BlockEnd(rows, h) ==
    CHOOSE e \in (h + 1)..Len(rows) :
        /\ DemoLabel(rows[e]) \in FacultySet \cup {"Grand Total"}
        /\ \A j \in (h + 1)..(e - 1) : DemoLabel(rows[j]) \notin FacultySet \cup {"Grand Total"}

\* some student of faculty f has records under two academic levels in year y
UnderTwoLevels(f, y) ==
    \E i, j \in DOMAIN data.rows :
        /\ data.rows[i].FACULTY_DESCR = f /\ data.rows[j].FACULTY_DESCR = f
        /\ data.rows[i].ACADEMIC_YEAR = y /\ data.rows[j].ACADEMIC_YEAR = y
        /\ data.rows[i].MASKED_ID = data.rows[j].MASKED_ID
        /\ determine_academic_level(data.rows[i].COURSE_CODE)
              # determine_academic_level(data.rows[j].COURSE_CODE)

TotalRowLaw(rows, h, j, y) ==
    LET f      == DemoLabel(rows[h])
        levels == {l \in (h + 1)..(BlockEnd(rows, h) - 1) : l # j}
        key    == ToString(y)
    IN  /\ rows[j][key] = Cardinality(DataStudents(f, y))
        /\ rows[j][key] <= SumOver(levels, rows, key)
        /\ (rows[j][key] = SumOver(levels, rows, key)) <=> ~UnderTwoLevels(f, y)

\* C4: in the demographics table the Total row of a faculty holds, for each
\* compared year, the number of distinct students with a record in that
\* faculty and year; it is at most the sum of the faculty's level rows, with
\* equality exactly when no student is under two levels in that year.
C4_DemographicsUnionLaw ==
    LET t == DemographicsNow
    IN  Truthy(t) =>
          \A h \in DOMAIN t.rows :
            DemoLabel(t.rows[h]) \in FacultySet =>
              \A j \in (h + 1)..(BlockEnd(t.rows, h) - 1) :
                DemoLabel(t.rows[j]) = "  Total" =>
                    /\ TotalRowLaw(t.rows, h, j, EarlierYear)
                    /\ TotalRowLaw(t.rows, h, j, LaterYear)

\* a Total row smaller than the sum of its level rows
C4_Witness ==
    LET t == DemographicsNow
    IN  /\ Truthy(t)
        /\ \E h \in DOMAIN t.rows :
              /\ DemoLabel(t.rows[h]) \in FacultySet
              /\ \E j \in (h + 1)..(BlockEnd(t.rows, h) - 1) :
                    /\ DemoLabel(t.rows[j]) = "  Total"
                    /\ t.rows[j][ToString(LaterYear)]
                          < SumOver({l \in (h + 1)..(BlockEnd(t.rows, h) - 1) : l # j},
                                    t.rows, ToString(LaterYear))

\* C5: the Grand Total row of the demographics table holds, for each compared
\* year, the number of distinct student ids of the whole table in that year.
C5_GrandTotalUnionLaw ==
    LET t == DemographicsNow
    IN  Truthy(t) =>
          /\ DemoLabel(t.rows[Len(t.rows)]) = "Grand Total"
          /\ t.rows[Len(t.rows)][ToString(EarlierYear)]
                = Cardinality(DataStudentsOfYear(EarlierYear))
          /\ t.rows[Len(t.rows)][ToString(LaterYear)]
                = Cardinality(DataStudentsOfYear(LaterYear))

\* a student recorded in two faculties in the later year: the Grand Total is
\* smaller than the sum of the faculty header rows
C5_Witness ==
    LET t == DemographicsNow
    IN  /\ Truthy(t)
        /\ t.rows[Len(t.rows)][ToString(LaterYear)]
              < SumOver({h \in DOMAIN t.rows : DemoLabel(t.rows[h]) \in FacultySet},
                        t.rows, ToString(LaterYear))

----------------------------------------------------------------------------
(* Properties of the cleaning pipeline *)

BeforeDuplicateCheck ==
    {"read_data", "handle_missing_values", "convert_data_types", "clean_text_fields",
     "fill_missing_values", "standardize_gender", "validate_categorical_variables"}

FromDuplicateCheck == {"check_duplicates", "check_data_consistency", "save_cleaned_data"}

AfterTextCleaning ==
    (BeforeDuplicateCheck \ {"read_data", "handle_missing_values", "convert_data_types"})
        \cup FromDuplicateCheck

\* the number of rows the log reports removed under the given action (0 when
\* the log has no such entry)
LoggedRemoved(action, what) ==
    IF \E i \in DOMAIN cleaning_log : cleaning_log[i].action = action
    THEN CHOOSE n \in 1..MaxCleanRows + 1 :
            \E i \in DOMAIN cleaning_log :
                cleaning_log[i] = log_action(action, "Removed " \o ToString(n) \o what)
    ELSE 0

ExactRemoved == LoggedRemoved("Duplicate Records", " completely duplicate rows")

BusinessRemoved ==
    LoggedRemoved("Business Duplicate Records",
                  " duplicate records for same student/term/course")

\* C6: the table keeps the number of rows read from the file until
\* check_duplicates; from then on it has that number minus the exact
\* duplicates removed minus the business-key duplicates removed, and the
\* report's 'Removed records' figure is original minus cleaned and never
\* negative.
C6_RowCountInvariant ==
    /\ pc \in BeforeDuplicateCheck => Len(df.rows) = original_shape[1]
    /\ pc \in FromDuplicateCheck =>
          Len(df.rows) = original_shape[1] - ExactRemoved - BusinessRemoved
    /\ pc = "save_cleaned_data" =>
          /\ cleaned_shape[1] = Len(df.rows)
          /\ report.original_records = original_shape[1]
          /\ report.cleaned_records = Len(df.rows)
          /\ report.removed_records = report.original_records - report.cleaned_records
          /\ report.removed_records >= 0

\* a saved run that removed an exact duplicate and a business-key duplicate
C6_Witness ==
    /\ pc = "save_cleaned_data"
    /\ ExactRemoved = 1
    /\ BusinessRemoved = 1
    /\ report.removed_records = 2

\* C7 as stated: a second run of fill_missing_values on the table it has
\* filled changes no cell and appends no entry to the cleaning log.
C7_SecondFillIsNoOp ==
    [][(pc = "fill_missing_values" /\ pc' = "fill_missing_values")
          => (df' = df /\ cleaning_log' = cleaning_log)]_vars

\* C7 as amended: a second run of fill_missing_values on the table it has
\* filled changes no cell and appends exactly one entry to the cleaning log,
\* the "Missing Value Fill Complete" entry with a total of 0, and no
\* per-column "Missing Value Fill" entry.
C7_SecondFillLogsSummaryOnly ==
    [][(pc = "fill_missing_values" /\ pc' = "fill_missing_values")
          => /\ df' = df
             /\ cleaning_log' =
                   Append(cleaning_log,
                          log_action("Missing Value Fill Complete",
                                     "Total filled: 0 missing values"))]_vars

\* fill_missing_values has run twice on a table whose first run filled cells
C7_Witness ==
    /\ pc = "fill_missing_values"
    /\ FillRuns = 2
    /\ \E i \in DOMAIN cleaning_log : cleaning_log[i].action = "Missing Value Fill"
    /\ \E i \in DOMAIN df.rows : df.rows[i]["GENDER"] = Str(Unknown)
    /\ \E i \in DOMAIN df.rows : df.rows[i]["MASKED_ID"] = Num(0)

\* C8: once handle_missing_values, convert_data_types and clean_text_fields
\* have run, no cell of the table is the empty string or the text "nan".
C8_NoRawBlanks ==
    pc \in AfterTextCleaning =>
        \A i \in DOMAIN df.rows :
            \A c \in DOMAIN df.rows[i] :
                df.rows[i][c] \notin {Str(<<>>), Str(<<"n", "a", "n">>)}

----------------------------------------------------------------------------
(* Properties of the multi-file merge *)

\* the columns of the cleaned tables
InputColumns == UNION {SeqToSet(all_dataframes[f].columns) : f \in DOMAIN all_dataframes}

\* the number of rows of the cleaned tables before table f
Offset(f) == SumSeq([g \in 1..(f - 1) |-> Len(all_dataframes[g].rows)])

TotalRows == Offset(Len(all_dataframes) + 1)

\* the cell in column c of the n-th row in input-file order
CatCell(n, c) ==
    LET f   == CHOOSE g \in DOMAIN all_dataframes :
                  Offset(g) < n /\ n <= Offset(g) + Len(all_dataframes[g].rows)
        row == all_dataframes[f].rows[n - Offset(f)]
    IN  IF c \in DOMAIN row THEN row[c] ELSE NaN

CatKey(n) == <<CatCell(n, "MASKED_ID"), CatCell(n, "ACADEMIC_YEAR")>>

BothKeyColumns == {"MASKED_ID", "ACADEMIC_YEAR"} \subseteq InputColumns

\* the rows that survive: with both key columns, the first row of each key
Survivors ==
    IF BothKeyColumns
    THEN {n \in 1..TotalRows : \A m \in 1..(n - 1) : CatKey(m) # CatKey(n)}
    ELSE 1..TotalRows

\* the k-th smallest element of S
NthOf(S, k) == CHOOSE n \in S : Cardinality({m \in S : m <= n}) = k

MergedKey(k) == <<merged_df.rows[k]["MASKED_ID"], merged_df.rows[k]["ACADEMIC_YEAR"]>>

\* C9: the merged table is the rows of the cleaned tables in input-file
\* order with, when both key columns exist, only the first row of every
\* (MASKED_ID, ACADEMIC_YEAR) pair kept: no two of its rows share a key,
\* every key of an input is present, and the surviving rows keep their order.
C9_MergeKeepsFirst ==
    merge_pc = "merged" =>
        /\ Len(merged_df.rows) = Cardinality(Survivors)
        /\ \A k \in DOMAIN merged_df.rows :
              /\ DOMAIN merged_df.rows[k] = InputColumns
              /\ \A c \in InputColumns :
                    merged_df.rows[k][c] = CatCell(NthOf(Survivors, k), c)
        /\ BothKeyColumns =>
              /\ \A j, k \in DOMAIN merged_df.rows : j # k => MergedKey(j) # MergedKey(k)
              /\ \A n \in 1..TotalRows :
                    \E k \in DOMAIN merged_df.rows : MergedKey(k) = CatKey(n)

\* two files, a row of the second repeating a key of the first dropped, and
\* rows of both files surviving
C9_Witness ==
    /\ merge_pc = "merged"
    /\ BothKeyColumns
    /\ Len(all_dataframes) = 2
    /\ \E n \in (Offset(2) + 1)..TotalRows :
          \E m \in 1..Offset(2) : CatKey(m) = CatKey(n)
    /\ \E n \in (Offset(2) + 1)..TotalRows : n \in Survivors
    /\ Len(merged_df.rows) < TotalRows

----------------------------------------------------------------------------
(* Properties of the batch cleaning *)

\* a file clean_data cannot clean: an unsupported format, a file that is not
\* there, or a table without rows
Uncleanable(file) ==
    \/ file.ext \notin {".csv", ".xlsx", ".xls"}
    \/ ~file.exists
    \/ file.table.rows = <<>>

\* C10: clean_multiple_wil_data never raises because of a file; it returns
\* one result per input file, in input order, each 'success' or 'failed'; a
\* file is 'failed', with an error message and no table, exactly when it
\* cannot be cleaned itself, whatever happened to the files before it.
C10_BatchIsolatesFailures ==
    /\ batch_pc # "raised"
    /\ Len(results) <= Len(input_files)
    /\ batch_pc = "returned" => Len(results) = Len(input_files)
    /\ \A i \in DOMAIN results :
          /\ results[i].original_file = PathOf(input_files[i])
          /\ results[i].status \in {"success", "failed"}
          /\ results[i].status = "failed" <=> Uncleanable(input_files[i])
          /\ results[i].status = "failed" =>
                results[i].error # None /\ results[i].cleaned_df = None
          /\ results[i].status = "success" =>
                results[i].error = None /\ results[i].cleaned_df # None

\* a returned batch of two files: the first failed, the second was cleaned
C10_Witness ==
    /\ batch_pc = "returned"
    /\ Len(results) = 2
    /\ results[1].status = "failed"
    /\ results[2].status = "success"
    /\ Len(results[2].cleaned_df.rows) = 1

----------------------------------------------------------------------------
(* Properties of the multi-file analysis at its boundary *)

\* a requested file that is not there, or that has no data rows
Rejected(file) == ~file.exists \/ Len(file.table.rows) = 0

\* C11: when one of the requested files is missing or fails the structural
\* validation, the analysis ends with an error response (404 for the missing
\* file, 400 for the invalid one, at the file where the loop stops), no table
\* of a rejected file is collected, and no merged table is ever produced from
\* the files that were valid.
C11_AllOrNothing ==
    (\E i \in DOMAIN file_ids : Rejected(file_ids[i])) =>
        /\ merge_pc # "merged"
        /\ merged_df = None
        /\ Len(all_dataframes) < Len(file_ids)
        /\ \A i \in DOMAIN all_dataframes : ~Rejected(file_ids[i])
        /\ merge_pc = "responded" =>
              /\ response.status \in {"400", "404", "500"}
              /\ (Len(file_ids) >= 2 /\ Rejected(file_ids[Len(all_dataframes) + 1])) =>
                    response.status =
                        IF file_ids[Len(all_dataframes) + 1].exists THEN "400" ELSE "404"

\* the first file was valid and is cleaned, the second is rejected: the
\* request is answered with the error and nothing is merged
C11_Witness ==
    /\ merge_pc = "responded"
    /\ Len(file_ids) = 2
    /\ Len(all_dataframes) = 1
    /\ Len(all_dataframes[1].rows) > 0
    /\ Rejected(file_ids[2])
    /\ merged_df = None

----------------------------------------------------------------------------
(* Properties of the term breakdown table *)

TermNow == TableNow("generate_term_breakdown_table", "term_breakdown")

DataFaculties == {data.rows[i].FACULTY_DESCR : i \in DOMAIN data.rows}

DataTerms == {data.rows[i].TERM : i \in DOMAIN data.rows}

\* the (year, term) pairs with a record in the data
ObservedPairs ==
    {<<data.rows[i].ACADEMIC_YEAR, data.rows[i].TERM>> : i \in DOMAIN data.rows}

\* each of the two compared years with each term of the data
ComparedPairs == {EarlierYear, LaterYear} \X DataTerms

\* the distinct student ids with a record in faculty f, year y and term tm
DataStudentsOfTerm(f, y, tm) ==
    {data.rows[i].MASKED_ID :
        i \in {j \in DOMAIN data.rows :
                 /\ data.rows[j].FACULTY_DESCR = f
                 /\ data.rows[j].ACADEMIC_YEAR = y
                 /\ data.rows[j].TERM = tm}}

\* the term table t has one row per faculty and a closing Grand Total row,
\* its count columns are those of pairs, every faculty cell is the number of
\* distinct students and every Grand Total cell the sum of its column
TermTableLaw(t, pairs) ==
    /\ Truthy(t)
    /\ Len(t.rows) = Cardinality(DataFaculties) + 1
    /\ {t.rows[i]["Term"] : i \in 1..(Len(t.rows) - 1)} = DataFaculties
    /\ t.rows[Len(t.rows)]["Term"] = "Grand Total"
    /\ {t.headers[k] : k \in 3..Len(t.headers)} = {ToString(pr[1]) \o " " \o ToString(pr[2]) : pr \in pairs}
    /\ Len(t.headers) = 2 + Cardinality(pairs)
    /\ \A i \in DOMAIN t.rows :
          DOMAIN t.rows[i] = {t.headers[k] : k \in DOMAIN t.headers}
    /\ \A pr \in pairs :
          LET column == ToString(pr[1]) \o " " \o ToString(pr[2])
          IN  /\ \A i \in 1..(Len(t.rows) - 1) :
                    t.rows[i][column] =
                        Cardinality(DataStudentsOfTerm(t.rows[i]["Term"], pr[1], pr[2]))
              /\ t.rows[Len(t.rows)][column] = SumOver(1..(Len(t.rows) - 1), t.rows, column)

\* the call is the term breakdown generator (alone or within
\* generate_all_analysis_tables) on a table with a TERM column and two years
TermTableDue ==
    /\ data # None
    /\ lastCall \in {"generate_term_breakdown_table", "generate_all_analysis_tables"}
    /\ "TERM" \in data.columns
    /\ Cardinality(DataYears) >= 2

\* without a TERM column the generator returns the empty mapping
NoTermNoTable ==
    (data # None /\ lastCall = "generate_term_breakdown_table" /\ "TERM" \notin data.columns)
        => DOMAIN lastResult = {}

\* C12 as stated: the count columns are exactly the (year, term) pairs
\* observed in the data.
C12_ColumnsAreObservedPairs ==
    /\ TermTableDue => TermTableLaw(TermNow, ObservedPairs)
    /\ NoTermNoTable

\* C12: with a TERM column and at least two distinct years the term table
\* has one row per faculty of the data and a trailing Grand Total row; its
\* count columns are each of the two compared years combined with each term
\* that occurs anywhere in the data; every faculty cell is the number of
\* distinct student ids of the faculty in that year and term and every Grand
\* Total cell is the sum of the faculty cells of its column.  Without a TERM
\* column the call returns the empty mapping.
C12_TermBreakdown ==
    /\ TermTableDue => TermTableLaw(TermNow, ComparedPairs)
    /\ NoTermNoTable

\* three years, term 2 only in the older compared year: the table has a
\* column of the later year and term 2 although no record has that pair, and
\* none of the oldest year
C12_Witness ==
    /\ lastCall = "generate_term_breakdown_table"
    /\ "TERM" \in data.columns
    /\ Cardinality(DataYears) = 3
    /\ <<LaterYear, 2>> \notin ObservedPairs
    /\ <<EarlierYear, 2>> \in ObservedPairs
    /\ Truthy(lastResult)
    /\ Len(lastResult.headers) = 6

----------------------------------------------------------------------------
(* Properties of the row structure of the demographics table *)

\* the academic levels with a student of faculty f in one of the compared years
LevelsOfFaculty(f) ==
    {determine_academic_level(data.rows[i].COURSE_CODE) :
        i \in {j \in DOMAIN data.rows :
                 /\ data.rows[j].FACULTY_DESCR = f
                 /\ data.rows[j].ACADEMIC_YEAR \in {EarlierYear, LaterYear}}}

\* the block of header row h: the faculty's distinct totals, one indented
\* row per level of the faculty and, if hasTotal, the closing Total row
BlockLaw(rows, h, hasTotal) ==
    LET f    == DemoLabel(rows[h])
        e    == BlockEnd(rows, h)
        last == IF hasTotal THEN e - 2 ELSE e - 1
    IN  /\ rows[h][ToString(EarlierYear)] = Cardinality(DataStudents(f, EarlierYear))
        /\ rows[h][ToString(LaterYear)] = Cardinality(DataStudents(f, LaterYear))
        /\ last - h = Cardinality(LevelsOfFaculty(f))
        /\ {DemoLabel(rows[j]) : j \in (h + 1)..last}
              = {"    " \o l : l \in LevelsOfFaculty(f)}
        /\ hasTotal => DemoLabel(rows[e - 1]) = "  Total"

\* one block per faculty of the data, then the Grand Total as the only such
\* row and the last one
BlocksLaw(rows) ==
    /\ DemoLabel(rows[Len(rows)]) = "Grand Total"
    /\ \A i \in 1..(Len(rows) - 1) : DemoLabel(rows[i]) # "Grand Total"
    /\ DemoLabel(rows[1]) \in FacultySet
    /\ {DemoLabel(rows[i]) : i \in DOMAIN rows} \cap FacultySet = DataFaculties
    /\ Cardinality({i \in DOMAIN rows : DemoLabel(rows[i]) \in FacultySet})
          = Cardinality(DataFaculties)

\* C13 as stated: every faculty block ends with a Total row.
C13_EveryBlockHasTotal ==
    LET t == DemographicsNow
    IN  Truthy(t) =>
          /\ BlocksLaw(t.rows)
          /\ \A h \in DOMAIN t.rows :
                DemoLabel(t.rows[h]) \in FacultySet => BlockLaw(t.rows, h, TRUE)

\* C13: the demographics table has, for every faculty of the input table, a
\* header row with the faculty's distinct-student totals, then one indented
\* row for each academic level with a student of the faculty in either
\* compared year and none for the other levels, then one indented Total row
\* if the faculty has a student in either compared year (a faculty with
\* records only in older years has its header row alone); after the last
\* block comes exactly one Grand Total row, the last row of the table.
C13_RowStructure ==
    LET t == DemographicsNow
    IN  Truthy(t) =>
          /\ BlocksLaw(t.rows)
          /\ \A h \in DOMAIN t.rows :
                DemoLabel(t.rows[h]) \in FacultySet =>
                    BlockLaw(t.rows, h, LevelsOfFaculty(DemoLabel(t.rows[h])) # {})

\* one faculty with records only in the oldest of three years, whose block is
\* its header row, and another with two levels in the compared years
C13_Witness ==
    LET t == DemographicsNow
    IN  /\ Truthy(t)
        /\ Cardinality(DataYears) = 3
        /\ \E h \in DOMAIN t.rows :
              /\ DemoLabel(t.rows[h]) \in FacultySet
              /\ BlockEnd(t.rows, h) = h + 1
        /\ \E h \in DOMAIN t.rows :
              /\ DemoLabel(t.rows[h]) \in FacultySet
              /\ BlockEnd(t.rows, h) = h + 4

----------------------------------------------------------------------------
(* Properties of the academic-level classifier *)

AcademicLevels == {"Non-Award", "Undergraduate", "Postgraduate", "Research"}

\* the code as the rules see it: upper case, outer whitespace removed
RuleText == Strip(Upper(code_cell))

CarriesNonAwardMarker == Contains(RuleText, <<"N","O","N","-","A","W","A","R","D">>)

CarriesCDEV == Contains(RuleText, <<"C","D","E","V">>)

\* the research rule: PHD or RES (RESEARCH, and a research code with RES,
\* contain RES)
MatchesResearch == Contains(RuleText, <<"P","H","D">>) \/ Contains(RuleText, <<"R","E","S">>)

\* the postgraduate rule: a 9x code, or MAST, GRAD or PG
MatchesPostgraduate ==
    \/ \E i \in 1..(Len(RuleText) - 1) :
          RuleText[i] = "9" /\ RuleText[i + 1] \in {"0","1","2","3","4","5","6","7","8","9"}
    \/ Contains(RuleText, <<"M","A","S","T">>)
    \/ Contains(RuleText, <<"G","R","A","D">>)
    \/ Contains(RuleText, <<"P","G">>)

\* C14: the classifier returns, for every course code and for a missing one,
\* exactly one of the four levels; a missing code is Undergraduate; a code
\* with the non-award marker is Non-Award whatever else it contains; a code
\* the non-award rule let pass is Undergraduate if it has CDEV, else Research
\* if the research rule matches, else Postgraduate if the postgraduate rule
\* matches, else Undergraduate.
C14_ClassifierTotalFirstMatch ==
    level_cell # "" =>
        /\ level_cell \in AcademicLevels
        /\ code_cell = NaN => level_cell = "Undergraduate"
        /\ code_cell # NaN =>
              /\ CarriesNonAwardMarker => level_cell = "Non-Award"
              /\ level_cell # "Non-Award" =>
                    level_cell =
                        IF CarriesCDEV THEN "Undergraduate"
                        ELSE IF MatchesResearch THEN "Research"
                        ELSE IF MatchesPostgraduate THEN "Postgraduate"
                        ELSE "Undergraduate"

\* a code that matches both the research and the postgraduate rule is
\* classified Research
C14_Witness ==
    /\ level_cell = "Research"
    /\ code_cell # NaN
    /\ MatchesPostgraduate

EndsWith00 ==
    Len(RuleText) >= 2 /\ RuleText[Len(RuleText) - 1] = "0" /\ RuleText[Len(RuleText)] = "0"

\* C15: a code is classified Non-Award only if it carries the non-award
\* marker or ends with "00" (so also with "0000"); a code with CDEV, without
\* the marker and not ending in "00" is classified Undergraduate.
C15_NonAwardOnlyTrailing ==
    (level_cell # "" /\ code_cell # NaN) =>
        /\ level_cell = "Non-Award" => (CarriesNonAwardMarker \/ EndsWith00)
        /\ (CarriesCDEV /\ ~CarriesNonAwardMarker /\ ~EndsWith00)
              => level_cell = "Undergraduate"

----------------------------------------------------------------------------
(* Properties of the duplicate resolution *)

\* the table has the three columns of the (student, term, course) triple
HasTriple(d) == {"MASKED_ID", "TERM", "COURSE_CODE"} \subseteq {d.columns[k] : k \in DOMAIN d.columns}

SameTriple(r1, r2) ==
    /\ r1["MASKED_ID"] = r2["MASKED_ID"]
    /\ r1["TERM"] = r2["TERM"]
    /\ r1["COURSE_CODE"] = r2["COURSE_CODE"]

\* rows r1 and r2 of table d are duplicates of each other for check_duplicates
DuplicateOf(d, r1, r2) == r1 = r2 \/ (HasTriple(d) /\ SameTriple(r1, r2))

\* the rows of d that are the first occurrence of their row and triple
FirstOccurrences(d) ==
    {i \in DOMAIN d.rows : \A j \in 1..(i - 1) : ~DuplicateOf(d, d.rows[j], d.rows[i])}

\* table after is table before with exactly its first occurrences, in order
KeepsFirstOccurrences(before, after) ==
    /\ after.columns = before.columns
    /\ Len(after.rows) = Cardinality(FirstOccurrences(before))
    /\ \A n \in DOMAIN after.rows :
          after.rows[n] = before.rows[NthOf(FirstOccurrences(before), n)]
    /\ \A a, b \in DOMAIN after.rows :
          a # b => ~DuplicateOf(after, after.rows[a], after.rows[b])
    /\ \A i \in DOMAIN before.rows :
          \E n \in DOMAIN after.rows : DuplicateOf(before, before.rows[i], after.rows[n])

\* C16: check_duplicates leaves the table with exactly the first occurrence
\* of every row and, when MASKED_ID, TERM and COURSE_CODE are all columns, of
\* every (student, term, course) triple, in their order: afterwards no two
\* rows are identical, no two rows share the triple, and every row and triple
\* of the input is still represented by its first occurrence.
C16_DuplicateResolution ==
    [][pc' = "check_duplicates" => KeepsFirstOccurrences(df, df')]_vars

\* check_duplicates has removed an exact duplicate and a later row with the
\* triple of an earlier, different row
C16_Witness ==
    /\ pc = "check_duplicates"
    /\ HasTriple(df)
    /\ ExactRemoved = 1
    /\ BusinessRemoved = 1
    /\ Len(df.rows) = 1

----------------------------------------------------------------------------
(* Properties of the mapping generate_all_analysis_tables returns *)

\* the table of this name can be built from the loaded data
CanBuild(name) ==
    /\ Cardinality(DataYears) >= 2
    /\ name = "term_breakdown" => "TERM" \in data.columns

\* the mapping has the name of a table exactly when the table can be built,
\* with the non-empty table under it, and no name besides the three table
\* names and '_metadata'
TableNamesLaw ==
    /\ DOMAIN lastResult \subseteq TableNames \cup {"_metadata"}
    /\ \A name \in TableNames :
          /\ name \in DOMAIN lastResult <=> CanBuild(name)
          /\ name \in DOMAIN lastResult => Truthy(lastResult[name])

\* the '_metadata' entry records the generation timestamp and the two years
MetadataLaw ==
    /\ lastResult["_metadata"].generation_date \in Timestamps
    /\ lastResult["_metadata"].comparison_years = <<EarlierYear, LaterYear>>
    /\ lastResult["_metadata"].total_tables = Cardinality(DOMAIN lastResult \cap TableNames)

\* C17 as stated: every returned mapping has the '_metadata' entry.
C17_MetadataAlways ==
    (data # None /\ lastCall = "generate_all_analysis_tables") =>
        /\ TableNamesLaw
        /\ "_metadata" \in DOMAIN lastResult
        /\ MetadataLaw

\* C17: generate_all_analysis_tables returns a mapping that has a table
\* name exactly when that table was generated non-empty, a table that could
\* not be built being omitted, and, exactly when it has at least one table, a
\* '_metadata' entry with the generation timestamp and the two years
\* compared; with no table built the mapping is empty.
C17_TablesAndMetadata ==
    (data # None /\ lastCall = "generate_all_analysis_tables") =>
        /\ TableNamesLaw
        /\ "_metadata" \in DOMAIN lastResult <=> DOMAIN lastResult \cap TableNames # {}
        /\ "_metadata" \in DOMAIN lastResult => MetadataLaw

\* a table without a TERM column and with two years: the term breakdown is
\* omitted, the other two tables and the metadata are there
C17_Witness ==
    /\ data # None
    /\ lastCall = "generate_all_analysis_tables"
    /\ "TERM" \notin data.columns
    /\ DOMAIN lastResult
          = {"wil_enrollment_comparison", "distinct_student_count", "_metadata"}
    /\ lastResult["_metadata"].total_tables = 2

----------------------------------------------------------------------------
(* Properties of the stage order of one cleaning run *)

Logged(action) == \E i \in DOMAIN cleaning_log : cleaning_log[i].action = action

\* the log reports the Filler's "Unknown" as an unexpected value
UnknownReported ==
    \E i \in DOMAIN cleaning_log :
        \/ cleaning_log[i] =
              log_action("Gender Field Anomaly",
                         "Found unexpected gender values: " \o ToString({Unknown}))
        \/ cleaning_log[i] =
              log_action("Categorical Variable Validation",
                         ToString(<<"GENDER: Found unexpected values " \o ToString({Unknown})>>))

\* C18: in a cleaning run the gender and categorical validation of the
\* Cleaner runs before the optional Filler: when the validation runs the
\* Filler has not run yet, when the Filler runs the validation is done, and
\* the validation never reports the "Unknown" the Filler writes as an
\* unexpected value.
C18_ValidationBeforeFiller ==
    /\ pc \in {"standardize_gender", "validate_categorical_variables"}
          => ~Logged("Missing Value Fill Complete")
    /\ pc = "fill_missing_values" => Logged("Categorical Variable Validation")
    /\ ~UnknownReported

----------------------------------------------------------------------------
(* Properties of the table builder as a function of the input table *)

\* the name under which generate_all_analysis_tables returns a generator's table
TableNameOf(call) ==
    IF call = "generate_wil_enrollment_comparison_table" THEN "wil_enrollment_comparison"
    ELSE IF call = "generate_term_breakdown_table" THEN "term_breakdown"
    ELSE "distinct_student_count"

\* what the result of the call made last says the generator returns ("no
\* statement" if that call was not of this generator)
ReturnedFor(call, lastly, result) ==
    IF lastly = call THEN [table |-> result]
    ELSE IF lastly = "generate_all_analysis_tables"
    THEN [table |-> IF TableNameOf(call) \in DOMAIN result
                    THEN result[TableNameOf(call)] ELSE EmptyDict]
    ELSE [none |-> TRUE]

\* C19: every table-generation call leaves the analyzer's input table as it
\* was loaded, without an academic-level column, and whenever two calls in a
\* row return the table of the same generator (alone or within
\* generate_all_analysis_tables) they return the same table.
C19_GeneratorsArePure ==
    [][data # None =>
          /\ data' = data
          /\ \A call \in Generators :
                (/\ ReturnedFor(call, lastCall, lastResult) # None
                 /\ ReturnedFor(call, lastCall', lastResult') # None)
                => ReturnedFor(call, lastCall', lastResult')
                      = ReturnedFor(call, lastCall, lastResult)]_vars

\* the third call in a row on a table of two years: the demographics table
\* is returned and the input table still has no academic-level column
C19_Witness ==
    /\ data # None
    /\ calls = 3
    /\ lastCall = "generate_distinct_student_count_table"
    /\ Truthy(lastResult)
    /\ "ACADEMIC_LEVEL" \notin data.columns

----------------------------------------------------------------------------
(* Properties of validate_filename *)

ForbiddenCharacters == {"/", "\\", "<", ">", ":", "\"", "|", "?", "*"}

\* the filename has a forbidden character or two dots in a row
HasForbidden ==
    \/ \E i \in DOMAIN filename : filename[i] \in ForbiddenCharacters
    \/ \E i \in 1..(Len(filename) - 1) : filename[i] = "." /\ filename[i + 1] = "."

\* the filename ends with the letters of pattern, in either case
EndsInEitherCase(pattern) ==
    /\ Len(filename) >= Len(pattern)
    /\ \A k \in DOMAIN pattern : filename[Len(filename) - Len(pattern) + k] \in pattern[k]

HasAllowedExtension ==
    \/ EndsInEitherCase(<<{"."}, {"c", "C"}, {"s", "S"}, {"v", "V"}>>)
    \/ EndsInEitherCase(<<{"."}, {"x", "X"}, {"l", "L"}, {"s", "S"}, {"x", "X"}>>)
    \/ EndsInEitherCase(<<{"."}, {"x", "X"}, {"l", "L"}, {"s", "S"}>>)

\* the message of the first failed check
FirstFailure ==
    IF HasForbidden
    THEN {Text("Filename contains invalid character: " \o c) :
            c \in ForbiddenCharacters \cup {".."}}
    ELSE IF Len(filename) > 255 THEN {Text("Filename is too long (max 255 characters)")}
    ELSE IF Len(filename) = 0 THEN {Text("Filename cannot be empty")}
    ELSE {Text("Invalid file extension. Allowed: .csv, .xlsx, .xls")}

\* C20: validate_filename returns (True, None) exactly for the filenames
\* without a forbidden substring, of 1 to 255 characters, that end in .csv,
\* .xlsx or .xls in either case; for every other filename it returns False
\* with the message of the first failed check in the order forbidden
\* character, too long, empty, invalid extension.
C20_ValidateFilename ==
    filename_check # None =>
        /\ filename_check.is_valid <=>
              (/\ ~HasForbidden
               /\ Len(filename) >= 1 /\ Len(filename) <= 255
               /\ HasAllowedExtension)
        /\ filename_check.is_valid => filename_check.error = None
        /\ ~filename_check.is_valid => filename_check.error \in FirstFailure

\* a filename of exactly 255 characters with a capital extension is accepted
C20_Witness ==
    /\ filename_check # None
    /\ filename_check.is_valid
    /\ Len(filename) = 255
    /\ filename[Len(filename)] = "V"

----------------------------------------------------------------------------
(* Properties of the analyzer's construction *)

\* the construction went through: an analyzer exists and nothing was raised by it
Constructed == analyzer # None

\* C21: constructing a WILReportAnalyzer with a data path that does not exist
\* succeeds without error, and the missing file is reported only by load_data,
\* which raises FileNotFoundError: after the construction on a missing file an
\* analyzer exists and no exception was raised, and after load_data on a
\* missing file the exception raised is a FileNotFoundError.
C21_MissingFileReportedOnLoad ==
    /\ (analyzer_pc = "__init__" /\ ~data_file.exists)
          => (Constructed /\ analyzer_raised = None)
    /\ (analyzer_pc = "load_data" /\ ~data_file.exists)
          => (analyzer_raised # None /\ analyzer_raised.class = "FileNotFoundError")

\* load_data on a file deleted after the construction raises a plain Exception
C21_LoadWrapsTheError ==
    ~(analyzer_pc = "load_data" /\ ~data_file.exists /\ data_file.ext = ".csv"
      /\ analyzer_raised # None /\ analyzer_raised.class = "Exception")

----------------------------------------------------------------------------
(* Properties of the schema reader *)

EncodingOrder == <<"utf-8", "gbk", "latin1">>

\* the file is a delimited file: its extension is csv in either case
IsDelimited == file_path.ext \in {".csv", ".CSV"}

IsSpreadsheet == file_path.ext \in {".xlsx", ".xls"}

\* some cell of the file has bytes that are not text in the encoding
FailsToDecode(encoding) ==
    \E i \in DOMAIN file_path.cells : decode(file_path.cells[i], encoding).error

\* the call has returned or raised
ReadOver == pc \in {"read_data", "raised"}

\* C22: for a delimited file the encodings are tried in the fixed order
\* UTF-8, GBK, Latin-1, a later one only after every earlier one failed to
\* decode, and the first successful read is returned (with its shape recorded
\* as the original shape); for an extension other than csv, xlsx and xls the
\* read fails with the unsupported-format error, no table is returned and
\* the original shape is not recorded.
C22_EncodingOrderAndFormats ==
    file_path # None =>
        /\ encodings_tried = SubSeq(EncodingOrder, 1, Len(encodings_tried))
        /\ ~IsDelimited => encodings_tried = <<>>
        /\ \A i \in DOMAIN encodings_tried :
              i < Len(encodings_tried) => FailsToDecode(encodings_tried[i])
        /\ (pc = "read_data" /\ IsDelimited) =>
              /\ encodings_tried # <<>>
              /\ ~FailsToDecode(encodings_tried[Len(encodings_tried)])
              /\ Len(df.rows) = Len(file_path.cells)
              /\ \A i \in DOMAIN df.rows :
                    df.rows[i]["NAME"].s =
                        decode(file_path.cells[i], encodings_tried[Len(encodings_tried)]).chars
              /\ original_shape = <<Len(file_path.cells), 1>>
        /\ (ReadOver /\ ~IsDelimited /\ ~IsSpreadsheet) =>
              /\ pc = "raised"
              /\ df = None
              /\ original_shape = None
              /\ cleaning_log[Len(cleaning_log)] =
                    log_action("Data Reading Error",
                               "Failed to read file: Unsupported file format: " \o file_path.ext
                                  \o ". Supported formats: .csv, .xlsx, .xls")

\* a file that only the third encoding decodes was read and returned
C22_Witness ==
    /\ pc = "read_data"
    /\ file_path # None
    /\ IsDelimited
    /\ encodings_tried = EncodingOrder
    /\ df.rows # <<>>

----------------------------------------------------------------------------
(* Properties of the missing-value filler *)

\* the entries a step appended to the log
Appended(before, after) == SubSeq(after, Len(before) + 1, Len(after))

\* the number of missing cells of column c
MissingIn(d, c) == Cardinality({i \in DOMAIN d.rows : d.rows[i][c] = NaN})

\* the number of missing cells of the table
MissingCells(d) ==
    Cardinality({<<i, k>> \in (DOMAIN d.rows) \X (DOMAIN d.columns) :
                    d.rows[i][d.columns[k]] = NaN})

IsIntegerField(c) == \E k \in DOMAIN integer_fields : integer_fields[k] = c

\* the text of a per-column fill entry that reports n cells of column c
PerColumnDetails(c, n) ==
    c \o ": filled " \o ToString(n) \o " missing values with "
      \o (IF IsIntegerField(c) THEN "0" ELSE "'Unknown'")

\* the fill count the entries report for column c (0 without an entry)
ReportedFill(entries, d, c) ==
    IF \E e \in DOMAIN entries, n \in 1..Len(d.rows) :
          entries[e] = log_action("Missing Value Fill", PerColumnDetails(c, n))
    THEN CHOOSE n \in 1..Len(d.rows) :
            \E e \in DOMAIN entries :
                entries[e] = log_action("Missing Value Fill", PerColumnDetails(c, n))
    ELSE 0

FillLaw(before, after, entries) ==
    /\ after.columns = before.columns
    /\ Len(after.rows) = Len(before.rows)
    /\ \A i \in DOMAIN before.rows :
          \A k \in DOMAIN before.columns :
              LET c == before.columns[k]
              IN  /\ after.rows[i][c] # NaN
                  /\ before.rows[i][c] # NaN => after.rows[i][c] = before.rows[i][c]
                  /\ (before.rows[i][c] = NaN /\ IsIntegerField(c))
                        => after.rows[i][c] = Num(0)
                  /\ (before.rows[i][c] = NaN /\ ~IsIntegerField(c))
                        => after.rows[i][c] = Str(<<"U", "n", "k", "n", "o", "w", "n">>)
    /\ entries # <<>>
    /\ entries[Len(entries)] =
          log_action("Missing Value Fill Complete",
                     "Total filled: " \o ToString(MissingCells(before)) \o " missing values")
    /\ \A e \in 1..(Len(entries) - 1) :
          \E k \in DOMAIN before.columns :
              /\ MissingIn(before, before.columns[k]) > 0
              /\ entries[e] =
                    log_action("Missing Value Fill",
                               PerColumnDetails(before.columns[k],
                                                MissingIn(before, before.columns[k])))
    /\ \A k \in DOMAIN before.columns :
          ReportedFill(entries, before, before.columns[k]) = MissingIn(before, before.columns[k])
    /\ SumSeq([k \in DOMAIN before.columns |->
                  ReportedFill(entries, before, before.columns[k])]) = MissingCells(before)

\* C23: after fill_missing_values has run no cell of the table is missing;
\* every cell that was missing is 0 in an integer field and the text "Unknown"
\* in any other column, every other cell is unchanged, and the total of the
\* 'Missing Value Fill Complete' entry equals the sum of the per-column fill
\* counts logged, which is the number of cells that were missing.
C23_FillResult ==
    [][pc' = "fill_missing_values"
          => FillLaw(df, df', Appended(cleaning_log, cleaning_log'))]_vars

\* a run that filled cells of an integer field and of a text column, three
\* cells or more in all
C23_Witness ==
    /\ pc = "fill_missing_values"
    /\ FillRuns = 1
    /\ \E i \in DOMAIN df.rows : df.rows[i]["MASKED_ID"] = Num(0)
    /\ \E i \in DOMAIN df.rows : df.rows[i]["GENDER"] = Str(<<"U", "n", "k", "n", "o", "w", "n">>)
    /\ \E n \in 3..(MaxCleanRows * 5) :
          cleaning_log[Len(cleaning_log)] =
              log_action("Missing Value Fill Complete",
                         "Total filled: " \o ToString(n) \o " missing values")

----------------------------------------------------------------------------
(* Properties of the consistency checks *)

Has(d, c) == \E k \in DOMAIN d.columns : d.columns[k] = c

\* one faculty code stands under two descriptions
DescriptionMismatch(d) ==
    /\ Has(d, "FACULTY") /\ Has(d, "FACULTY_DESCR")
    /\ \E i, j \in DOMAIN d.rows :
          /\ d.rows[i]["FACULTY"] # NaN
          /\ d.rows[i]["FACULTY"] = d.rows[j]["FACULTY"]
          /\ d.rows[i]["FACULTY_DESCR"] # NaN
          /\ d.rows[j]["FACULTY_DESCR"] # NaN
          /\ d.rows[i]["FACULTY_DESCR"] # d.rows[j]["FACULTY_DESCR"]

\* a course code is missing or is not four capitals and four digits
BadlyFormattedCode(d) ==
    /\ Has(d, "COURSE_CODE")
    /\ \E i \in DOMAIN d.rows :
          \/ d.rows[i]["COURSE_CODE"] = NaN
          \/ Len(d.rows[i]["COURSE_CODE"].s) # 8
          \/ \E k \in 1..4 : d.rows[i]["COURSE_CODE"].s[k] \notin SeqToSet(UpperLetters)
          \/ \E k \in 5..8 : d.rows[i]["COURSE_CODE"].s[k] \notin SeqToSet(Digits)

\* a course attribute is present and is not WILC
NonSentinelAttribute(d) ==
    /\ Has(d, "CRSE_ATTR")
    /\ \E i \in DOMAIN d.rows :
          /\ d.rows[i]["CRSE_ATTR"] # NaN
          /\ d.rows[i]["CRSE_ATTR"].s # <<"W", "I", "L", "C">>

\* a catalog number is present and is not the four digits the code ends in
CatalogMismatch(d) ==
    /\ Has(d, "CATALOG_NUMBER") /\ Has(d, "COURSE_CODE")
    /\ \E i \in DOMAIN d.rows :
          /\ d.rows[i]["CATALOG_NUMBER"] # NaN
          /\ \/ d.rows[i]["COURSE_CODE"] = NaN
             \/ Len(d.rows[i]["COURSE_CODE"].s) < 4
             \/ LET s == d.rows[i]["COURSE_CODE"].s
                    last4 == SubSeq(s, Len(s) - 3, Len(s))
                IN  \/ \E k \in 1..4 : last4[k] \notin SeqToSet(Digits)
                    \/ d.rows[i]["CATALOG_NUMBER"].v # ParseInt(last4)

AnyFinding(d) ==
    \/ DescriptionMismatch(d)
    \/ BadlyFormattedCode(d)
    \/ NonSentinelAttribute(d)
    \/ CatalogMismatch(d)

ReadOnlyLaw(before, after, entries, returned) ==
    /\ returned
    /\ after.columns = before.columns
    /\ after.rows = before.rows
    /\ ~Has(after, "extracted_number")
    /\ Len(entries) = 1
    /\ entries[1].action = "Data Consistency Check"
    /\ entries[1].details = "Data consistency check passed" <=> ~AnyFinding(before)

\* C24: check_data_consistency returns a table with the same rows in the same
\* order and the same columns as the table it was given (the extracted-number
\* column is not left behind); its findings are one entry of the action log,
\* and it returns, never raises, on a code/description mismatch, a badly
\* formatted course code, a non-sentinel course attribute or a
\* catalog-number mismatch.
C24_ConsistencyChecksReadOnly ==
    [][pc' \in {"check_data_consistency", "raised"}
          => ReadOnlyLaw(df, df', Appended(cleaning_log, cleaning_log'),
                         pc' = "check_data_consistency")]_vars

\* the checks have run on a table with all four kinds of finding
C24_Witness ==
    /\ pc = "check_data_consistency"
    /\ Has(df, "CATALOG_NUMBER")
    /\ DescriptionMismatch(df)
    /\ BadlyFormattedCode(df)
    /\ NonSentinelAttribute(df)
    /\ CatalogMismatch(df)
    /\ cleaning_log[Len(cleaning_log)].action = "Data Consistency Check"

----------------------------------------------------------------------------
(* Properties of the distribution section of the quality report *)

RECURSIVE CountsOf(_, _)
\* the sum of the counts the distribution lists for the values in S
CountsOf(dist, S) ==
    IF S = {} THEN 0
    ELSE LET v == CHOOSE x \in S : TRUE
         IN  dist[v].count + CountsOf(dist, S \ {v})

\* C29: for every categorical field the value counts listed in the report's
\* distribution section sum to at most the 'Cleaned records' count of the
\* same report, and each percentage is at most 100%: the distribution
\* describes the table that remains after duplicate removal.
C29_DistributionOfCleanedTable ==
    pc = "save_cleaned_data" =>
        \A field \in DOMAIN report.distribution :
            /\ CountsOf(report.distribution[field], DOMAIN report.distribution[field])
                  <= report.cleaned_records
            /\ \A v \in DOMAIN report.distribution[field] :
                  report.distribution[field][v].pct <= 10000

----------------------------------------------------------------------------
(* Properties of the files a batch writes *)

\* the entries of the log under the given action
EntriesOf(log, action) == {i \in DOMAIN log : log[i].action = action}

\* the report of a file cleaned on its own by clean_wil_data under the batch
\* id the loop gives it
ReportAlone(file) ==
    LET alone == clean_wil_data(file, batch_options.fill_missing,
                                file_batch_id(file, batch_options))
    IN  alone.written[alone.report_file]

\* the report written for the file the step has cleaned holds what this file
\* alone produces
OwnReportLaw(file, result, written_report) ==
    /\ written_report = ReportAlone(file)
    /\ written_report.original_records = Len(file.table.rows)
    /\ Cardinality(EntriesOf(written_report.log, "Data Reading")) = 1
    /\ Cardinality(EntriesOf(written_report.log, "Missing Value Handling")) = 1
    /\ Cardinality(EntriesOf(written_report.log, "Data Consistency Check")) = 1
    /\ written_report.log[1].action = "Data Reading"
    /\ \A field \in DOMAIN written_report.distribution :
          \A v \in DOMAIN written_report.distribution[field] :
              written_report.distribution[field][v].count <= Len(file.table.rows)

\* C25: every file of a batch is cleaned with its own new DataCleaner: the
\* action log, the quality counters and the original row count in the report
\* written for a file are those of cleaning that file alone, and hold nothing
\* produced while cleaning another file of the batch, whatever the order or
\* number of the files.
C25_NoCrossContamination ==
    [][(batch_pc = "loop" /\ Len(results') = Len(results) + 1
        /\ results'[Len(results')].status = "success")
          => OwnReportLaw(input_files[Len(results')], results'[Len(results')],
                          output_dir'[results'[Len(results')].report_file.str])]_vars

\* a batch of two files with different tables, both cleaned
C25_Witness ==
    /\ batch_pc = "returned"
    /\ Len(results) = 2
    /\ results[1].status = "success"
    /\ results[2].status = "success"
    /\ input_files[1].name # input_files[2].name
    /\ input_files[1].table # input_files[2].table
    /\ cleaner.original_shape = <<1, 4>>

\* C28: within one clean_multiple_wil_data call every successfully cleaned
\* input file gets a cleaned-data path and a report path that differ from
\* those of every other file of the batch, so no file's cleaned output is
\* overwritten by a later file, two files of the same academic year included:
\* when the call has returned, the cleaned file of each result holds the
\* table of that result.
C28_UniqueOutputs ==
    /\ \A i, j \in DOMAIN results :
          (/\ i # j
           /\ results[i].status = "success"
           /\ results[j].status = "success"
           /\ PathOf(input_files[i]) # PathOf(input_files[j]))
             => /\ results[i].cleaned_file # results[j].cleaned_file
                /\ results[i].report_file # results[j].report_file
    /\ batch_pc = "returned" =>
          \A i \in DOMAIN results :
              (results[i].status = "success"
               /\ \A j \in DOMAIN results : j # i => PathOf(input_files[j]) # PathOf(input_files[i]))
                 => output_dir[results[i].cleaned_file.str] = results[i].cleaned_df

----------------------------------------------------------------------------
(* Properties of the type normalization *)

IntegerFieldsOf(d) == {c \in SeqToSet(d.columns) : IsIntegerField(c)}

\* the number a raw cell of the model's input stands for, as <<whole,
\* decimals>>; <<>> for a cell that is no number
NumberOf(cell) ==
    IF cell = Str(<<"1">>) THEN <<1, <<>>>>
    ELSE IF cell = Str(<<"9">>) THEN <<9, <<>>>>
    ELSE IF cell = Str(<<"1", ".", "5">>) THEN <<1, <<"5">>>>
    ELSE IF cell = Str(<<"2", ".", "5", "0">>) THEN <<2, <<"5">>>>
    ELSE <<>>

\* the number a converted cell holds
HeldNumber(cell) ==
    IF cell.k = "num" THEN <<cell.v, <<>>>>
    ELSE IF cell.k = "float" THEN <<cell.v, cell.frac>>
    ELSE <<>>

\* a value with decimals makes the cast of the whole column fail
WholeColumnFailure(d, c) ==
    \E i \in DOMAIN d.rows : NumberOf(d.rows[i][c]) # <<>> /\ NumberOf(d.rows[i][c])[2] # <<>>

ConversionLaw(before, after, entries, returned) ==
    /\ returned
    /\ after.columns = before.columns
    /\ Len(after.rows) = Len(before.rows)
    /\ \A c \in IntegerFieldsOf(before) :
          /\ \A i \in DOMAIN before.rows :
                /\ NumberOf(before.rows[i][c]) = <<>> => after.rows[i][c] = NaN
                /\ NumberOf(before.rows[i][c]) # <<>> =>
                      HeldNumber(after.rows[i][c]) = NumberOf(before.rows[i][c])
          /\ ~WholeColumnFailure(before, c) =>
                /\ \A i \in DOMAIN after.rows : after.rows[i][c].k \in {"num", "nan"}
                /\ \E e \in DOMAIN entries :
                      entries[e] = log_action("Data Type Conversion",
                                              c \o " converted to integer type")
          /\ WholeColumnFailure(before, c) =>
                /\ Cardinality(EntriesOf(entries, "Data Type Conversion Errors")) = 1
                /\ \A e \in DOMAIN entries :
                      entries[e] # log_action("Data Type Conversion",
                                              c \o " converted to integer type")
    /\ (\A c \in IntegerFieldsOf(before) : ~WholeColumnFailure(before, c))
          => EntriesOf(entries, "Data Type Conversion Errors") = {}
    /\ \A c \in SeqToSet(before.columns) \ IntegerFieldsOf(before) :
          \A i \in DOMAIN after.rows : after.rows[i][c].k \in {"str", "nan"}

\* C26: convert_data_types never fails on a bad cell: a value of an integer
\* field that cannot be coerced to a number becomes missing while the other
\* cells of the column keep their numeric values, no exception is raised, the
\* row count is unchanged, and a failure that affects a whole column is
\* recorded in the log and does not stop the conversion of the other columns.
C26_ConversionNeverFails ==
    [][(pc = "table read" /\ pc' # pc)
          => ConversionLaw(df, df', Appended(cleaning_log, cleaning_log'),
                           pc' = "convert_data_types")]_vars

\* a conversion in which the cast of MASKED_ID failed for a value with
\* decimals, a bad cell of it became missing next to a number that was kept,
\* and CATALOG_NUMBER was still converted
C26_Witness ==
    /\ pc = "convert_data_types"
    /\ Has(df, "CATALOG_NUMBER")
    /\ \E i \in DOMAIN df.rows : df.rows[i]["MASKED_ID"] = Float(1, <<"5">>)
    /\ \E i \in DOMAIN df.rows : df.rows[i]["MASKED_ID"] = NaN
    /\ \A i \in DOMAIN df.rows : df.rows[i]["CATALOG_NUMBER"] = Num(9)
    /\ EntriesOf(cleaning_log, "Data Type Conversion Errors") # {}
    /\ \E e \in DOMAIN cleaning_log :
          cleaning_log[e] = log_action("Data Type Conversion",
                                       "CATALOG_NUMBER converted to integer type")

----------------------------------------------------------------------------
(* Agreement of the Grand Totals of the two tables *)

\* both tables of one generate_all_analysis_tables call on the loaded table
BothTablesNow ==
    /\ lastCall = "generate_all_analysis_tables"
    /\ {"wil_enrollment_comparison", "distinct_student_count"} \subseteq DOMAIN lastResult

\* no two records of the table share (MASKED_ID, ACADEMIC_YEAR)
StudentYearUnique ==
    \A i, j \in DOMAIN data.rows :
        (/\ data.rows[i].MASKED_ID = data.rows[j].MASKED_ID
         /\ data.rows[i].ACADEMIC_YEAR = data.rows[j].ACADEMIC_YEAR) => i = j

\* the Grand Total row of a table: its last row
GrandTotalRow(t) == t.rows[Len(t.rows)]

----------------------------------------------------------------------------
(* The statistics of the merged table against those of the concatenation *)

\* the table the analyzer would load without the deduplication
Concatenated == AnalyzerData(concat(all_dataframes))

\* the table the analyzer loads
Merged == AnalyzerData(merged_df)

\* the two compared years of a table with at least two years
ComparedYears(d) ==
    {AvailableYears(d)[Len(AvailableYears(d)) - 1], AvailableYears(d)[Len(AvailableYears(d))]}

\* C30: the per-faculty distinct-student counts of each compared year are the
\* same on the merged, (student, year)-deduplicated table as on the plain
\* concatenation of the cleaned tables.
C30_MergeKeepsFacultyCounts ==
    (merge_pc = "merged" /\ Len(AvailableYears(Concatenated)) >= 2) =>
        /\ AvailableYears(Merged) = AvailableYears(Concatenated)
        /\ \A year \in ComparedYears(Concatenated) :
              EnrollmentByFaculty(Merged, year) = EnrollmentByFaculty(Concatenated, year)

====
